---- MODULE Spec2Model ----
(***************************************************************************)
(* Product-metadata resolution pipeline of the wishlist application:       *)
(*   src/src/lib/search.ts   (lines 1-480)   searchItems, Metadata Cache   *)
(*   src/src/lib/metadata.ts (lines 347-621) fetchMetadata, proxy racing   *)
(*                                                                         *)
(* Two specifications share the module's variables:                        *)
(*   Spec      - the Product Search Engine (searchItems and its background *)
(*               enrichment) with the Metadata Resolver seen at call level *)
(*   SpecFetch - one fetchMetadata call with its proxy race in detail      *)
(***************************************************************************)
EXTENDS Integers, Sequences, FiniteSets, TLC

\* ------------------------------------------------------------------ bounds
MaxItems == 1          \* items each search-API branch returns at most

\* ------------------------------------------------------- program constants
CACHE_DURATION == 5    \* search.ts:25, in units of the 60 s sweep interval
RegularLimit   == 6    \* search.ts:302  .slice(0, 6)
ShoppingLimit  == 6    \* search.ts:308  .slice(0, 6)
TotalLimit     == 12   \* search.ts:334  .slice(0, 12)
MinHtmlLength  == 100  \* metadata.ts:482 html.length < 100
NumProxies     == 3    \* metadata.ts:403-407 corsProxies

Proxies == 1..NumProxies

\* ------------------------------------------------------------- data model
\* A link is an absolute URL, kept as the features the code inspects.
\*   host : hostname, lower-cased;  path : pathname, lower-cased;
\*   slash : the string ends with "/";  caps : it has upper-case letters
LinkA      == [host |-> "shop.com",   path |-> "/p/1",        slash |-> FALSE, caps |-> FALSE]
LinkB      == [host |-> "store.com",  path |-> "/about",      slash |-> FALSE, caps |-> FALSE]
LinkAsset  == [host |-> "shop.com",   path |-> "/images/p/9", slash |-> FALSE, caps |-> FALSE]
LinkSocial == [host |-> "reddit.com", path |-> "/r/item",     slash |-> FALSE, caps |-> FALSE]
Links      == {LinkA, LinkB, LinkSocial}

ItemPrice  == [amount |-> 1999, currency |-> "USD"]  \* a price found in an API item
PagePrice  == [amount |-> 2499, currency |-> "USD"]  \* a price found in a fetched page
NoPrice    == [amount |-> 0, currency |-> "UNKNOWN"]

\* An item of a search-API response: the link, the price processSearchItem
\* extracts from its pagemap/snippet, and whether isProductLink's hasPrice
\* signal (offer price, product block, "$" or "price" in the snippet) is set.
ApiItems == {i \in [link : Links, amount : {0, ItemPrice.amount}, signal : BOOLEAN] :
               /\ i.signal = (i.amount > 0)
               /\ i.link = LinkSocial => i.amount = 0}

Titles == {"", "Denied", "Access Denied", "ACCESS DENIED (403)", "Blue Mug"}

\* title.toLowerCase().includes('access denied')                search.ts:364
IncludesAccessDenied(t) == t \in {"Access Denied", "ACCESS DENIED (403)"}

\* Metadata a fetchMetadata call can resolve with for url u  metadata.ts:463-468
PagePrices == {NoPrice, PagePrice}
MetadataOf(u) == [title : Titles, image : {"", "og.png"}, price : PagePrices, url : {u}]

\* NON_SHOPPING_DOMAINS.some(...)                              search.ts:27-36
IsNonShoppingDomain(l) == l.host \in {"reddit.com"}

\* url.includes('/product') || '/item' || '/dp/' || '/p/' ...  search.ts:42-44
HasProductPath(l) == l.path \in {"/p/1", "/images/p/9", "/r/item"}

\* hasProductPath || hasPrice                                  search.ts:38-51
IsProductLink(item) == HasProductPath(item.link) \/ item.signal

\* no image extension, none of the CDN/asset patterns         search.ts:124-149
IsValidProductUrl(l) == l.path \notin {"/images/p/9"}

\* Variant of NormalizeUrl that only strips the trailing slash (no
\* toLowerCase()).
NormalizeUrl_KeepCase(l) == [l EXCEPT !.slash = FALSE]

\* item.link.toLowerCase().replace(/\/$/, '')                  search.ts:316
NormalizeUrl(l) == [l EXCEPT !.slash = FALSE, !.caps = FALSE]

Min(a, b) == IF a < b THEN a ELSE b

\* Array.prototype.slice(0, n)
Slice(s, n) == SubSeq(s, 1, Min(n, Len(s)))

\* Array.prototype.findIndex on url; 0 stands for -1
RECURSIVE FindIndexFrom(_, _, _)
FindIndexFrom(s, u, i) ==
  IF i > Len(s) THEN 0
  ELSE IF s[i].url = u THEN i ELSE FindIndexFrom(s, u, i + 1)
FindIndex(s, u) == FindIndexFrom(s, u, 1)

\* Step 4: deduplicate on the normalized URL, first one wins   search.ts:312-321
RECURSIVE DedupeFrom(_, _)
DedupeFrom(items, seen) ==
  IF items = <<>> THEN <<>>
  ELSE LET n == NormalizeUrl(Head(items).link) IN
       IF n \in seen THEN DedupeFrom(Tail(items), seen)
       ELSE <<Head(items)>> \o DedupeFrom(Tail(items), seen \cup {n})
Dedupe(items) == DedupeFrom(items, {})

\* processSearchItem: price from the item, image from the item's image
\* fields or the clearbit logo of the hostname (never empty)  search.ts:188-256
ProcessSearchItem(item, isShoppingResult) ==
  [ url   |-> item.link,
    title |-> "Blue Mug",
    price |-> IF item.amount > 0
                THEN [ItemPrice EXCEPT !.amount = item.amount]
                ELSE NoPrice,
    image |-> "logo.clearbit.com",
    isShoppingResult |-> isShoppingResult ]

\* Step 2: the general-search items that pass the filters    search.ts:299-302
RegularItems(regularData) ==
  Slice(SelectSeq(SelectSeq(regularData,
                  LAMBDA i : ~IsNonShoppingDomain(i.link)),
                  LAMBDA i : IsProductLink(i)), RegularLimit)

\* Step 3: the shopping items that pass the filters          search.ts:305-308
ProcessedShoppingItems(shoppingItems) ==
  Slice(SelectSeq(SelectSeq(shoppingItems,
                  LAMBDA i : ~IsNonShoppingDomain(i.link)),
                  LAMBDA i : IsValidProductUrl(i.link)), ShoppingLimit)

\* Steps 2-5 of searchItems: filter, merge, dedupe, process  search.ts:298-334
InitialResults(regularData, shoppingItems) ==
  LET regularItems == RegularItems(regularData)
      processedShoppingItems == ProcessedShoppingItems(shoppingItems)
      uniqueItems == Dedupe(regularItems \o processedShoppingItems)
  IN Slice([k \in 1..Len(uniqueItems) |->
              ProcessSearchItem(uniqueItems[k], k - 1 >= Len(regularItems))],
           TotalLimit)

\* (!r.price.amount || !r.image) && isValidProductUrl(r.url)  search.ts:344-346
NeedsEnhance(r) == (r.price.amount = 0 \/ r.image = "") /\ IsValidProductUrl(r.url)

\* Variant of HasUsefulData without the includes('access denied') test: only
\* the two exact placeholder titles are refused.
HasUsefulData_ExactTitles(m) ==
  /\ m.title # ""
  /\ m.title # "Access Denied"
  /\ m.title # "Denied"
  /\ (m.price.amount > 0 \/ m.image # "")

\* Variant of HasUsefulData without the price-or-image test: metadata with a
\* usable title alone would count as useful.
HasUsefulData_TitleOnly(m) ==
  /\ m.title # ""
  /\ m.title # "Access Denied"
  /\ m.title # "Denied"
  /\ ~IncludesAccessDenied(m.title)

\* hasUsefulData                                              search.ts:361-365
HasUsefulData(m) ==
  /\ m.title # ""
  /\ m.title # "Access Denied"
  /\ m.title # "Denied"
  /\ ~IncludesAccessDenied(m.title)
  /\ (m.price.amount > 0 \/ m.image # "")

\* cache-miss merge: fetched fields win only when present     search.ts:373-378
MergeFetched(r, m) ==
  [r EXCEPT !.title = IF m.title # "" THEN m.title ELSE r.title,
            !.price = IF m.price.amount # 0 THEN m.price ELSE r.price,
            !.image = IF m.image # "" THEN m.image ELSE r.image]

\* Variant of WriteBack that puts the enhanced entry at the head of the list.
WriteBack_MoveToFront(rs, result, enhanced) ==
  <<enhanced>> \o SelectSeq(rs, LAMBDA r : r.url # result.url)

\* index = initialResults.findIndex(r => r.url === result.url);
\* if (index !== -1) initialResults[index] = enhanced          search.ts:382-385
WriteBack(rs, result, enhanced) ==
  LET index == FindIndex(rs, result.url)
  IN IF index # 0 THEN [rs EXCEPT ![index] = enhanced] ELSE rs

\* cache-hit merge: { ...result, ...cached.data }              search.ts:351
MergeCached(r, d) ==
  [r EXCEPT !.title = d.title, !.image = d.image, !.price = d.price, !.url = d.url]

\* Variant of CacheHit that still serves an entry exactly one TTL old.
CacheHit_Inclusive(c, u) == u \in DOMAIN c /\ c[u].age <= CACHE_DURATION

\* A cache entry is kept as [data, age], age = Date.now() - timestamp: the
\* clock is only ever read to form this difference.
\* cached && Date.now() - cached.timestamp < CACHE_DURATION    search.ts:349-350
CacheHit(c, u) == u \in DOMAIN c /\ c[u].age < CACHE_DURATION

\* metadataCache.set(url, { data, timestamp: Date.now() })     search.ts:368-371
CachePut(c, u, m) ==
  [k \in DOMAIN c \cup {u} |-> IF k = u THEN [data |-> m, age |-> 0] ELSE c[k]]

\* ------------------------------------------------------------------- state
VARIABLES
  creds,      \* GOOGLE_API_KEY && GOOGLE_SEARCH_ENGINE_ID are set   search.ts:13-14
  cache,      \* metadataCache: url -> [data, age]                  search.ts:24
  bg,         \* urls of enrichment tasks of earlier calls that are still fetching
  \* the most recent searchItems call:
  pc,         \* where searchItems is suspended
  kind,       \* "text" or "url" query
  aborted,    \* signal.aborted
  urlFetch,   \* the fetchMetadata(query) of the URL short-circuit
  regular,    \* the general-search request
  shopping,   \* fetchShoppingResults
  shopItems,  \* what fetchShoppingResults returned
  apiCalls,   \* search-API requests put on the network
  results,    \* the initialResults array (the list returned)
  initial,    \* copy of initialResults as first built
  task,       \* state of the enrichment task of each entry
  log,        \* the onProgress invocations, in order
  ret         \* settlement of the promise searchItems returned

callVars == <<pc, kind, aborted, urlFetch, regular, shopping, shopItems,
              apiCalls, results, initial, task, log, ret>>
searchVars == <<creds, cache, bg, callVars>>

\* One fetchMetadata call seen from inside (specification SpecFetch)
VARIABLES
  fm,         \* the call: "idle", "racing", "resolved" or "rejected"
  fmError,    \* the error it rejected with
  fmHtml,     \* the html handed to parseMetadataFromHtml
  winner,     \* the proxy whose html Promise.any delivered (0: none)
  proxy,      \* per proxy: state of its tryProxy attempt
  proxyErr,   \* per proxy: the error its attempt threw
  timer,      \* per proxy: the setTimeout of its fetchWithTimeout
  ctrl,       \* per proxy: controllers[i].signal.aborted      metadata.ts:507
  settles,    \* times the promise fetchMetadata returned was settled
  unhandled   \* proxies whose rejection no handler received

fetchVars == <<fm, fmError, fmHtml, winner, proxy, proxyErr, timer, ctrl,
               settles, unhandled>>

\* A pure function applied to one input (specifications SpecMerge, ...)
VARIABLES
  fnIn,       \* the arguments
  fnOut       \* [done |-> FALSE], or done with the value returned

\* AddItem's search state: searching, searchResults, the number of searches
\* made, the searchItems call that is pending, the call whose results the
\* list is showing, the enrichment tasks still running and the error
\* message                                            AddItem.tsx:224-230
VARIABLES ui

pureVars == <<fnIn, fnOut>>
vars == <<searchVars, fetchVars, pureVars, ui>>

Pending   == [status |-> "pending",  error |-> ""]
Resolved  == [status |-> "resolved", error |-> ""]
Rejected(e) == [status |-> "rejected", error |-> e]

\* Errors as the caller sees them
ConfigError      == "Google API credentials not configured."    \* search.ts:278
StatusError      == "Search API returned status"                \* search.ts:293
AbortError       == "AbortError"                                \* fetch aborted
NetworkError     == "TypeError: Failed to fetch"                \* fetch rejected
AllProxiesFailed == "Could not fetch item details. All proxies failed."  \* metadata.ts:536
CouldNotFetch    == "Could not fetch item details from this URL"         \* metadata.ts:538
ResolverErrors   == {AllProxiesFailed, CouldNotFetch}

UrlQueries == {LinkA}   \* the absolute http(s) URLs used as queries

InitSearch ==
  /\ creds \in BOOLEAN
  /\ cache = << >>
  /\ bg = {}
  /\ pc = "idle"
  /\ kind = "none"
  /\ aborted = FALSE
  /\ urlFetch = "none"
  /\ regular = "none"
  /\ shopping = "none"
  /\ shopItems = << >>
  /\ apiCalls = 0
  /\ results = << >>
  /\ initial = << >>
  /\ task = << >>
  /\ log = << >>
  /\ ret = Pending

\* Variant of DualFetchStart in which the credentials are not checked before
\* the two requests are issued.
DualFetchStart_Unchecked(hasCreds, isAborted) ==
  IF isAborted
    THEN [pc |-> "rejected", ret |-> Rejected(AbortError),
          regular |-> "aborted", shopping |-> "done", calls |-> 0]
  ELSE [pc |-> "dual_fetch", ret |-> Pending,
        regular |-> "inflight", shopping |-> "inflight", calls |-> 2]

\* The code after the URL short-circuit: the credentials check, then the two
\* fetchWithTimeout calls of Promise.all.  A fetch given an already aborted
\* signal rejects at once without reaching the network.     search.ts:277-290
DualFetchStart(hasCreds, isAborted) ==
  IF ~hasCreds
    THEN [pc |-> "rejected", ret |-> Rejected(ConfigError),
          regular |-> "none", shopping |-> "none", calls |-> 0]
  ELSE IF isAborted
    THEN [pc |-> "rejected", ret |-> Rejected(AbortError),
          regular |-> "aborted", shopping |-> "done", calls |-> 0]
  ELSE [pc |-> "dual_fetch", ret |-> Pending,
        regular |-> "inflight", shopping |-> "inflight", calls |-> 2]

\* What a rejected fetchMetadata(query) leads to in the URL short-circuit:
\* the await sits inside try { } catch (e) { /* Not a URL */ }, so the
\* rejection is caught and the text search starts.           search.ts:264-279
UrlResolveFailed(hasCreds, isAborted, err) == DualFetchStart(hasCreds, isAborted)

\* Enrichment tasks of the call being superseded that are still fetching:
\* they keep running, detached.                              search.ts:396
StillFetching == {initial[i].url : i \in {j \in DOMAIN task : task[j] = "fetching"}}

\* searchItems(query, onProgress, signal) is called, with onProgress and
\* signal supplied as AddItem does (without onProgress the same steps run,
\* minus the invocations that log records).  The caller starts a search only
\* when the previous one has settled or was cancelled.
\*                              search.ts:258-290, AddItem.tsx:301-335, 479
StartSearch(k) ==
  /\ pc # "idle" => (ret.status # "pending" \/ aborted)
  /\ bg' = bg \cup StillFetching
  /\ kind' = k
  /\ aborted' = FALSE
  /\ shopItems' = << >>
  /\ results' = << >>
  /\ initial' = << >>
  /\ task' = << >>
  /\ log' = << >>
  /\ IF k = "url"
       THEN /\ pc' = "url_resolve"
            /\ urlFetch' = "pending"
            /\ regular' = "none"
            /\ shopping' = "none"
            /\ apiCalls' = 0
            /\ ret' = Pending
       ELSE LET d == DualFetchStart(creds, FALSE) IN
            /\ pc' = d.pc
            /\ ret' = d.ret
            /\ regular' = d.regular
            /\ shopping' = d.shopping
            /\ apiCalls' = d.calls
            /\ urlFetch' = "none"
  /\ UNCHANGED <<ui, pureVars, fetchVars, creds, cache>>

\* fetchMetadata(query) resolves: return [{ ...metadata, source }]  search.ts:267-271
UrlResolved(m) ==
  /\ pc = "url_resolve"
  /\ urlFetch' = "resolved"
  /\ results' = << [url |-> m.url, title |-> m.title, price |-> m.price,
                    image |-> m.image, isShoppingResult |-> FALSE] >>
  /\ pc' = "resolved"
  /\ ret' = Resolved
  /\ UNCHANGED <<ui, pureVars, fetchVars, creds, cache, bg, kind, aborted, regular,
                 shopping, shopItems, apiCalls, initial, task, log>>

\* fetchMetadata(query) rejects.                             search.ts:267-279
UrlRejected(err) ==
  /\ pc = "url_resolve"
  /\ urlFetch' = "rejected"
  /\ LET d == UrlResolveFailed(creds, aborted, err) IN
       /\ pc' = d.pc
       /\ ret' = d.ret
       /\ regular' = d.regular
       /\ shopping' = d.shopping
       /\ apiCalls' = d.calls
  /\ UNCHANGED <<ui, pureVars, fetchVars, creds, cache, bg, kind, aborted, shopItems,
                 results, initial, task, log>>

\* Where searchItems stands once the state of the two branches is known:
\* Promise.all rejects as soon as the general-search fetch rejects; when both
\* have settled, a non-OK status throws, otherwise regularResponse.json() is
\* awaited - and rejects at once if the signal has errored the body stream.
\*                                                            search.ts:283-296
AfterDualFetch(reg, shop, isAborted) ==
  IF reg = "failed"  THEN [pc |-> "rejected", ret |-> Rejected(NetworkError)]
  ELSE IF reg = "aborted" THEN [pc |-> "rejected", ret |-> Rejected(AbortError)]
  ELSE IF reg \in {"ok", "bad"} /\ shop \in {"done", "failed"}
    THEN IF reg = "bad" THEN [pc |-> "rejected", ret |-> Rejected(StatusError)]
         ELSE IF isAborted THEN [pc |-> "rejected", ret |-> Rejected(AbortError)]
         ELSE [pc |-> "read_body", ret |-> Pending]
  ELSE [pc |-> "dual_fetch", ret |-> Pending]

\* Variant of AbortRegular in which the caller's signal is not forwarded to
\* the general-search fetch.
AbortRegular_Unwired(reg) == reg

\* What signal.abort() does to a request made through fetchWithTimeout with
\* the caller's signal: anySignal forwards the abort to the fetch.
\*                                                            search.ts:53-81
AbortRegular(reg) == IF reg = "inflight" THEN "aborted" ELSE reg

\* fetchShoppingResults catches the abort and returns [].     search.ts:156-184
AbortShopping(shop) == IF shop \in {"inflight", "body"} THEN "done" ELSE shop

\* The general-search request settles.  st: "ok"/"bad" = response headers with
\* an OK / non-OK status, "failed" = network error, "aborted" = the 8 s timer
\* fired and aborted the fetch.                               search.ts:67-81
RegularSettles(st) ==
  /\ regular = "inflight"
  /\ regular' = st
  /\ LET a == AfterDualFetch(st, shopping, aborted) IN
       /\ pc' = a.pc
       /\ ret' = a.ret
  /\ UNCHANGED <<ui, pureVars, fetchVars, creds, cache, bg, kind, aborted, urlFetch,
                 shopping, shopItems, apiCalls, results, initial, task, log>>

RegularResponse(ok) == RegularSettles(IF ok THEN "ok" ELSE "bad")
RegularFails        == RegularSettles("failed")
RegularTimeout      == RegularSettles("aborted")

\* fetchShoppingResults reaches a new state: "body" = awaiting response.json(),
\* "done" = returned items, "failed" = returned [] after a failure.
\*                                                            search.ts:152-185
ShoppingStep(from, to, items) ==
  /\ shopping = from
  /\ shopping' = to
  /\ shopItems' = items
  /\ IF pc = "dual_fetch"
       THEN LET a == AfterDualFetch(regular, to, aborted) IN
            /\ pc' = a.pc
            /\ ret' = a.ret
       ELSE UNCHANGED <<pc, ret>>
  /\ UNCHANGED <<ui, pureVars, fetchVars, creds, cache, bg, kind, aborted, urlFetch,
                 regular, apiCalls, results, initial, task, log>>

\* response headers: !response.ok returns []                 search.ts:160-164
ShoppingResponse(ok) == ShoppingStep("inflight", IF ok THEN "body" ELSE "failed", << >>)
\* Variant of ShoppingFails in which the network error of the shopping
\* request is not caught and rejects Promise.all.
ShoppingFails_Propagates ==
  /\ shopping = "inflight"
  /\ shopping' = "failed"
  /\ IF pc = "dual_fetch"
       THEN pc' = "rejected" /\ ret' = Rejected(NetworkError)
       ELSE UNCHANGED <<pc, ret>>
  /\ UNCHANGED <<ui, pureVars, fetchVars, creds, cache, bg, kind, aborted, urlFetch,
                 regular, shopItems, apiCalls, results, initial, task, log>>

\* network error: caught                                      search.ts:181-184
ShoppingFails   == ShoppingStep("inflight", "failed", << >>)
\* the 8 s timer aborts the fetch: caught             search.ts:69, 181-184
ShoppingTimeout == ShoppingStep("inflight", "failed", << >>)
\* response.json() resolves: map to contextLink, filter      search.ts:166-180
ShoppingBody(items) ==
  ShoppingStep("body", "done", SelectSeq(items, LAMBDA i : IsValidProductUrl(i.link)))
\* response.json() rejects: caught                           search.ts:181-184
ShoppingBodyFails == ShoppingStep("body", "failed", << >>)

\* The holder of the signal passed to searchItems aborts it (AddItem's Cancel
\* button does so while the search is pending; the signal stays the caller's
\* to abort after the promise has resolved).  What the abort does: anySignal
\* forwards it to both fetches, and a body read in progress fails.
\*                                   search.ts:53-81, AddItem.tsx:484-491
Abort ==
  /\ pc # "idle"
  /\ ~aborted
  \* aborting is observable only while something of the call is in flight
  /\ ret.status = "pending" \/ \E i \in DOMAIN task : task[i] = "fetching"
  /\ aborted' = TRUE
  /\ regular' = AbortRegular(regular)
  /\ shopping' = AbortShopping(shopping)
  /\ shopItems' = IF shopping' # shopping THEN << >> ELSE shopItems
  /\ IF pc = "dual_fetch"
       THEN LET a == AfterDualFetch(regular', shopping', TRUE) IN
            /\ pc' = a.pc
            /\ ret' = a.ret
     ELSE IF pc = "read_body"
       THEN /\ pc' = "rejected"
            /\ ret' = Rejected(AbortError)
     ELSE UNCHANGED <<pc, ret>>
  /\ UNCHANGED <<ui, pureVars, fetchVars, creds, cache, bg, kind, urlFetch, apiCalls,
                 results, initial, task, log>>

\* API responses: up to MaxItems items per branch
Responses == UNION {[1..k -> ApiItems] : k \in 0..MaxItems}

\* Step 6: initialResults.forEach(result => onProgress(result))  search.ts:337-339
EmitInitial(rs) == [i \in 1..Len(rs) |-> [phase |-> "initial", result |-> rs[i]]]

\* The synchronous head of each enrichment task: not selected, served from
\* the cache, or a fetchMetadata call is started.            search.ts:344-357
TaskStart(r, ch) ==
  IF ~NeedsEnhance(r) THEN "none"
  ELSE IF CacheHit(ch, r.url) THEN "hit"
  ELSE "fetching"

\* onProgress(enhanced) of the cache-hit tasks, in list order search.ts:349-354
RECURSIVE EmitCached(_, _)
EmitCached(rs, ch) ==
  IF rs = << >> THEN << >>
  ELSE (IF TaskStart(Head(rs), ch) = "hit"
          THEN << [phase |-> "enriched",
                   result |-> MergeCached(Head(rs), ch[Head(rs).url].data)] >>
          ELSE << >>) \o EmitCached(Tail(rs), ch)

\* Variant of ProgressAtReturn in which enhanceResults() is started before
\* the initial results are emitted.
ProgressAtReturn_EnhanceFirst(rs, ch) == EmitCached(rs, ch) \o EmitInitial(rs)

\* Everything passed to onProgress before searchItems returns: step 6, then
\* enhanceResults() runs up to its first await.              search.ts:336-398
ProgressAtReturn(rs, ch) == EmitInitial(rs) \o EmitCached(rs, ch)

\* regularResponse.json() resolves; steps 2-7 run without suspension and
\* searchItems returns initialResults.                       search.ts:296-398
\* Variant of RegularBody with "await enhanceResults()": the promise stays
\* pending while a Resolver call of the enrichment is in flight.
RegularBody_AwaitsEnhance(data) ==
  /\ pc = "read_body"
  /\ LET rs == InitialResults(data, shopItems)
         ts == [i \in 1..Len(rs) |-> TaskStart(rs[i], cache)]
     IN /\ results' = rs
        /\ initial' = rs
        /\ task' = ts
        /\ log' = ProgressAtReturn(rs, cache)
        /\ ret' = IF \E i \in DOMAIN ts : ts[i] = "fetching" THEN Pending ELSE Resolved
  /\ pc' = "resolved"
  /\ shopItems' = << >>
  /\ UNCHANGED <<ui, pureVars, fetchVars, creds, cache, bg, kind, aborted, urlFetch,
                 regular, shopping, apiCalls>>

RegularBody(data) ==
  /\ pc = "read_body"
  /\ LET rs == InitialResults(data, shopItems) IN
       /\ results' = rs
       /\ initial' = rs
       /\ task' = [i \in 1..Len(rs) |-> TaskStart(rs[i], cache)]
       /\ log' = ProgressAtReturn(rs, cache)
  /\ pc' = "resolved"
  /\ ret' = Resolved
  /\ shopItems' = << >>      \* a local of the call that has returned
  /\ UNCHANGED <<ui, pureVars, fetchVars, creds, cache, bg, kind, aborted, urlFetch,
                 regular, shopping, apiCalls>>

\* regularResponse.json() rejects (connection lost, invalid JSON): rethrown
\*                                                      search.ts:296, 400-403
RegularBodyFails ==
  /\ pc = "read_body"
  /\ pc' = "rejected"
  /\ ret' = Rejected(NetworkError)
  /\ UNCHANGED <<ui, pureVars, fetchVars, creds, cache, bg, kind, aborted, urlFetch,
                 regular, shopping, shopItems, apiCalls, results, initial, task, log>>

\* The enrichment task of entry i gets its metadata: the usefulness check,
\* then cache, merge, onProgress and the in-place update.     search.ts:357-388
EnrichResolved(i, m) ==
  /\ i \in DOMAIN task
  /\ task[i] = "fetching"
  /\ m.url = initial[i].url
  /\ IF HasUsefulData(m)
       THEN LET result   == initial[i]
                enhanced == MergeFetched(result, m)
            IN /\ cache' = CachePut(cache, result.url, m)
               /\ log' = Append(log, [phase |-> "enriched", result |-> enhanced])
               /\ results' = WriteBack(results, result, enhanced)
               /\ task' = [task EXCEPT ![i] = "ok"]
       ELSE /\ task' = [task EXCEPT ![i] = "skipped"]
            /\ UNCHANGED <<cache, log, results>>
  /\ UNCHANGED <<ui, pureVars, fetchVars, creds, bg, pc, kind, aborted, urlFetch,
                 regular, shopping, shopItems, apiCalls, initial, ret>>

\* Variant of EnrichRejected whose catch passes the original result to
\* onProgress once more.
EnrichRejected_Reemits(i, err) ==
  /\ i \in DOMAIN task
  /\ task[i] = "fetching"
  /\ task' = [task EXCEPT ![i] = "failed"]
  /\ log' = Append(log, [phase |-> "initial", result |-> initial[i]])
  /\ UNCHANGED <<ui, pureVars, fetchVars, creds, cache, bg, pc, kind, aborted, urlFetch,
                 regular, shopping, shopItems, apiCalls, results, initial, ret>>

\* The fetchMetadata call of entry i rejects: console.error only.
\*                                                            search.ts:389-392
EnrichRejected(i, err) ==
  /\ i \in DOMAIN task
  /\ task[i] = "fetching"
  /\ task' = [task EXCEPT ![i] = "failed"]
  /\ UNCHANGED <<ui, pureVars, fetchVars, creds, cache, bg, pc, kind, aborted, urlFetch,
                 regular, shopping, shopItems, apiCalls, results, initial, log, ret>>

\* A task of an earlier call gets metadata that passes the usefulness check:
\* it is cached (the onProgress and list update belong to that call).
\*                                                            search.ts:357-371
BgResolved(b, m) ==
  /\ b \in bg
  /\ m.url = b
  /\ HasUsefulData(m)
  /\ bg' = bg \ {b}
  /\ cache' = CachePut(cache, b, m)
  /\ UNCHANGED <<ui, pureVars, fetchVars, creds, callVars>>

\* A task of an earlier call ends without effect: its metadata fails the
\* usefulness check, or its fetchMetadata call rejects.       search.ts:386-392
BgDiscarded(b) ==
  /\ b \in bg
  /\ bg' = bg \ {b}
  /\ UNCHANGED <<ui, pureVars, fetchVars, creds, cache, callVars>>

\* One TTL of time passes.  The setInterval sweep runs five times in it and
\* deletes each entry once it is older than the TTL: an entry that was fresh
\* is now exactly one TTL old (not yet swept), an older one is gone.
\*                                                            search.ts:473-480
TickAndSweep ==
  /\ DOMAIN cache # {}
  /\ LET aged == [u \in DOMAIN cache |-> [cache[u] EXCEPT !.age = @ + CACHE_DURATION]]
     IN cache' = [k \in {u \in DOMAIN aged : ~(aged[u].age > CACHE_DURATION)} |-> aged[k]]
  /\ UNCHANGED <<ui, pureVars, fetchVars, creds, bg, callVars>>

NextSearch ==
  \/ \E k \in {"text", "url"} : StartSearch(k)
  \/ \E u \in UrlQueries : \E m \in MetadataOf(u) : UrlResolved(m)
  \/ \E e \in ResolverErrors : UrlRejected(e)
  \/ \E ok \in BOOLEAN : RegularResponse(ok)
  \/ RegularFails
  \/ RegularTimeout
  \/ \E ok \in BOOLEAN : ShoppingResponse(ok)
  \/ ShoppingFails
  \/ ShoppingTimeout
  \/ \E items \in Responses : ShoppingBody(items)
  \/ ShoppingBodyFails
  \/ Abort
  \/ \E data \in Responses : RegularBody(data)
  \/ RegularBodyFails
  \/ \E i \in DOMAIN task : \E m \in MetadataOf(initial[i].url) : EnrichResolved(i, m)
  \/ \E i \in DOMAIN task, e \in ResolverErrors : EnrichRejected(i, e)
  \/ \E b \in bg : \E m \in MetadataOf(b) : BgResolved(b, m)
  \/ \E b \in bg : BgDiscarded(b)
  \/ TickAndSweep

\* ------------------------------------------------------------ fetchMetadata
NoHtml == [length |-> 0, hasTitle |-> FALSE]

\* Response bodies a proxy can deliver: the length tryProxy tests and whether
\* a <title> is present for parseMetadataFromHtml.       metadata.ts:412, 482
Htmls == {h \in [length : {0, MinHtmlLength - 1, MinHtmlLength}, hasTitle : BOOLEAN] :
            h.hasTitle => h.length > 0}

InvalidUrl   == "Invalid URL format"                   \* metadata.ts:501
TimedOut     == "Request timed out after 15000ms"      \* metadata.ts:367
HttpError    == "HTTP status"                          \* metadata.ts:477
EmptyBody    == "Empty or invalid response"            \* metadata.ts:483
NoTitleError == "Could not extract title from page"    \* metadata.ts:460
AggregateError == "AggregateError"                     \* Promise.any, all rejected
ProxyErrors  == {TimedOut, HttpError, EmptyBody, NetworkError}

InitFetch ==
  /\ fm = "idle"
  /\ fmError = ""
  /\ fmHtml = NoHtml
  /\ winner = 0
  /\ proxy = [p \in Proxies |-> "idle"]
  /\ proxyErr = [p \in Proxies |-> ""]
  /\ timer = [p \in Proxies |-> "none"]
  /\ ctrl = [p \in Proxies |-> FALSE]
  /\ settles = 0
  /\ unhandled = {}

\* Variant of FetchMetadataError without the catch: the error thrown inside
\* fetchMetadata reaches the caller as it is.
FetchMetadataError_Rethrow(e) == e

\* The catch of fetchMetadata: what the caller gets for an error thrown by
\* Promise.any or by parseMetadataFromHtml.                metadata.ts:532-539
FetchMetadataError(e) ==
  IF e = AggregateError THEN AllProxiesFailed ELSE CouldNotFetch

\* controllers.forEach(controller => controller.abort()): the controllers
\* were never given to tryProxy, so no request state changes. metadata.ts:507-525
CancelLosers(px) == px

\* Promise.any(proxyPromises) subscribes to every proxy promise, so each
\* rejection has a handler.                                  metadata.ts:522
RaceHandles(p) == p \in Proxies

\* tryProxy after response.text(): too short a body throws.   metadata.ts:480-487
BodyOutcome(html) ==
  IF html.length = 0 \/ html.length < MinHtmlLength THEN "failed" ELSE "ok"

\* fetchMetadata(url) is called: the URL check, then every proxy request is
\* issued at once, each with its own 15 s timer.            metadata.ts:491-518
FetchStart(valid) ==
  /\ fm = "idle"
  /\ IF valid
       THEN /\ fm' = "racing"
            /\ proxy' = [p \in Proxies |-> "inflight"]
            /\ timer' = [p \in Proxies |-> "armed"]
            /\ UNCHANGED <<fmError, settles>>
       ELSE /\ fm' = "rejected"
            /\ fmError' = InvalidUrl
            /\ settles' = settles + 1
            /\ UNCHANGED <<proxy, timer>>
  /\ UNCHANGED <<ui, pureVars, searchVars, fmHtml, winner, proxyErr, ctrl, unhandled>>

\* What the settlement of proxy p's attempt (to state st, with error e or
\* body html) does to the race: Promise.any fulfils with the first html and
\* rejects when every attempt has failed; fetchMetadata then parses, or
\* rethrows through its catch.                              metadata.ts:520-539
Race(p, st, e, html) ==
  LET px == [proxy EXCEPT ![p] = st] IN
  /\ proxyErr' = [proxyErr EXCEPT ![p] = e]
  /\ unhandled' = IF st = "failed" /\ ~RaceHandles(p) THEN unhandled \cup {p} ELSE unhandled
  /\ IF fm = "racing" /\ st = "ok"
       THEN /\ winner' = p
            /\ fmHtml' = html
            /\ ctrl' = [q \in Proxies |-> TRUE]
            /\ proxy' = CancelLosers(px)
            /\ settles' = settles + 1
            /\ IF html.hasTitle
                 THEN fm' = "resolved" /\ UNCHANGED fmError
                 ELSE fm' = "rejected" /\ fmError' = FetchMetadataError(NoTitleError)
     ELSE IF fm = "racing" /\ \A q \in Proxies : px[q] = "failed"
       THEN /\ fm' = "rejected"
            /\ fmError' = FetchMetadataError(AggregateError)
            /\ settles' = settles + 1
            /\ proxy' = px
            /\ UNCHANGED <<winner, fmHtml, ctrl>>
     ELSE /\ proxy' = px
          /\ UNCHANGED <<fm, fmError, fmHtml, winner, ctrl, settles>>

\* Response headers arrive: the timer is cleared; a non-OK status throws,
\* otherwise response.text() is awaited.            metadata.ts:361-363, 476-480
ProxyHeaders(p, ok) ==
  /\ proxy[p] = "inflight"
  /\ timer' = [timer EXCEPT ![p] = "cleared"]
  /\ IF ok THEN Race(p, "reading", "", NoHtml) ELSE Race(p, "failed", HttpError, NoHtml)
  /\ UNCHANGED <<ui, pureVars, searchVars>>

\* fetch rejects with a network error.                       metadata.ts:364-369
ProxyNetworkError(p) ==
  /\ proxy[p] = "inflight"
  /\ timer' = [timer EXCEPT ![p] = "cleared"]
  /\ Race(p, "failed", NetworkError, NoHtml)
  /\ UNCHANGED <<ui, pureVars, searchVars>>

\* The 15 s timer fires: controller.abort(), the fetch rejects with an
\* AbortError, rethrown as a timeout.                        metadata.ts:358, 364-368
ProxyTimeout(p) ==
  /\ timer[p] = "armed"
  /\ proxy[p] = "inflight"
  /\ timer' = [timer EXCEPT ![p] = "fired"]
  /\ Race(p, "failed", TimedOut, NoHtml)
  /\ UNCHANGED <<ui, pureVars, searchVars>>

\* response.text() resolves with the body.                   metadata.ts:480-487
ProxyBody(p, html) ==
  /\ proxy[p] = "reading"
  /\ Race(p, BodyOutcome(html), IF BodyOutcome(html) = "failed" THEN EmptyBody ELSE "", html)
  /\ UNCHANGED <<ui, pureVars, searchVars, timer>>

\* response.text() rejects: the connection broke mid-body.   metadata.ts:480
ProxyBodyError(p) ==
  /\ proxy[p] = "reading"
  /\ Race(p, "failed", NetworkError, NoHtml)
  /\ UNCHANGED <<ui, pureVars, searchVars, timer>>

NextFetch ==
  \/ \E valid \in BOOLEAN : FetchStart(valid)
  \/ \E p \in Proxies, ok \in BOOLEAN : ProxyHeaders(p, ok)
  \/ \E p \in Proxies : ProxyNetworkError(p)
  \/ \E p \in Proxies : ProxyTimeout(p)
  \/ \E p \in Proxies, html \in Htmls : ProxyBody(p, html)
  \/ \E p \in Proxies : ProxyBodyError(p)

\* ---------------------------------------------------------- specifications
NoInput  == [op |-> "none"]
NoOutput == [done |-> FALSE]
\* AddItem as mounted: no search made, nothing displayed   AddItem.tsx:224-230
NoSearchYet ==
  [searching |-> FALSE, calls |-> 0, pending |-> 0, shown |-> 0,
   tasks |-> {}, searchResults |-> << >>, error |-> ""]

InitPure == fnIn = NoInput /\ fnOut = NoOutput /\ ui = NoSearchYet

Init == InitSearch /\ InitFetch /\ InitPure

Spec == Init /\ [][NextSearch]_vars

InitFetchOnly == Init /\ creds = TRUE

\* ------------------------------------------ the price of a search item alone
\* A string field of a search item, by what the price code reads from it:
\* whether it is there and non-empty, the number parseFloat finds in its
\* digits (in cents, 0 when there is none), and the currency mark in it.
Absent == [present |-> FALSE, digits |-> 0, mark |-> ""]

Text(d, m) == [present |-> TRUE, digits |-> d, mark |-> m]

\* detectCurrency(text): currency codes first, a bare '$' falls back to the
\* stored user preference and then to USD, no mark at all is UNKNOWN.
\*                                                       metadata.ts:720-795
DetectCurrency(t, pref) ==
  IF t.mark = "MYR" THEN "MYR"
  ELSE IF t.mark = "USD" THEN "USD"
  ELSE IF t.mark = "$"
         THEN (IF pref # "" /\ pref # "UNKNOWN" THEN pref ELSE "USD")
  ELSE "UNKNOWN"

\* parsePriceAmount(priceStr): the positive number in the string, else 0
\*                                                           search.ts:83-102
ParsePriceAmount(t) == IF t.present /\ t.digits > 0 THEN t.digits ELSE 0

\* extractPriceFromText(text): a number next to a currency symbol or code;
\* the currency defaults to USD.                            search.ts:104-122
ExtractPriceFromText(t, pref) ==
  LET currency == DetectCurrency(t, pref)
      matched  == t.present /\ t.mark \in {"$", "MYR", "USD"} /\ t.digits > 0
  IN IF matched /\ ParsePriceAmount(t) > 0
       THEN [amount |-> ParsePriceAmount(t),
             currency |-> IF currency # "UNKNOWN" THEN currency ELSE "USD"]
       ELSE NoPrice

\* The offer branch (and, alike, the product branch): the currency is
\* detectCurrency(priceCurrency || price) as it comes.       search.ts:200-211
OfferPrice(price, priceCurrency, pref) ==
  LET currency == DetectCurrency(IF priceCurrency.present THEN priceCurrency ELSE price, pref)
      amount   == ParsePriceAmount(price)
  IN IF amount > 0 THEN [amount |-> amount, currency |-> currency] ELSE NoPrice

\* The metatags branch: the currency defaults to USD.        search.ts:212-218
MetatagsPrice(amountText, currencyText, pref) ==
  LET currency == DetectCurrency(IF currencyText.present THEN currencyText ELSE Text(0, ""), pref)
      amount   == ParsePriceAmount(amountText)
  IN IF amount > 0
       THEN [amount |-> amount, currency |-> IF currency # "UNKNOWN" THEN currency ELSE "USD"]
       ELSE NoPrice

\* The price part of processSearchItem.                      search.ts:192-224
SearchItemPrice(item) ==
  LET fromPagemap ==
        IF item.offerPrice.present
          THEN OfferPrice(item.offerPrice, item.offerCurrency, item.pref)
        ELSE IF item.productPrice.present
          THEN OfferPrice(item.productPrice, item.productCurrency, item.pref)
        ELSE IF item.metaAmount.present
          THEN MetatagsPrice(item.metaAmount, item.metaCurrency, item.pref)
        ELSE NoPrice
  IN IF fromPagemap.amount = 0
       THEN ExtractPriceFromText(item.text, item.pref)
       ELSE fromPagemap

PricedItems ==
  [op : {"price"},
   offerPrice : {Absent, Text(1999, ""), Text(1999, "$"), Text(1999, "MYR"), Text(0, "$")},
   offerCurrency : {Absent, Text(0, "USD"), Text(0, "MYR")},
   productPrice : {Absent, Text(2999, "")},
   productCurrency : {Absent, Text(0, "USD")},
   metaAmount : {Absent, Text(3999, "")},
   metaCurrency : {Absent, Text(0, "MYR")},
   text : {Absent, Text(4999, "$"), Text(4999, "")},
   pref : {"", "AUD"}]

InitPrice ==
  /\ InitSearch /\ creds = TRUE
  /\ InitFetch
  /\ fnIn \in PricedItems
  /\ fnOut = NoOutput
  /\ ui = NoSearchYet

ApplyPrice ==
  /\ fnIn.op = "price"
  /\ ~fnOut.done
  /\ fnOut' = [done |-> TRUE, value |-> SearchItemPrice(fnIn)]
  /\ UNCHANGED <<searchVars, fetchVars, fnIn, ui>>

NextPrice == ApplyPrice

SpecPrice == InitPrice /\ [][NextPrice]_vars

\* ------------------------------------- the price of a fetched page alone
MaxBlocks == 2     \* JSON-LD script blocks in a page

\* extractPriceFromText of metadata.ts: as in search.ts, with a third
\* pattern for "price: 12.34".                            metadata.ts:374-393
HtmlExtractPriceFromText(t, pref) ==
  LET currency == DetectCurrency(t, pref)
      matched  == t.present /\ t.mark \in {"$", "MYR", "USD", "price:"} /\ t.digits > 0
  IN IF matched /\ ParsePriceAmount(t) > 0
       THEN [amount |-> ParsePriceAmount(t),
             currency |-> IF currency # "UNKNOWN" THEN currency ELSE "USD"]
       ELSE NoPrice

\* Strategy 1: product:price:amount / og:price:amount meta tag, currency
\* from the currency tag or 'USD'.                         metadata.ts:423-432
OgPrice(h) ==
  LET amount == ParsePriceAmount(h.ogAmount)
  IN IF h.ogAmount.present /\ amount > 0
       THEN [amount |-> amount,
             currency |-> DetectCurrency(IF h.ogCurrency.present THEN h.ogCurrency
                                         ELSE Text(0, "USD"), h.pref)]
       ELSE NoPrice

\* extractPriceFromJsonLd(data) for one parsed block: a Product's offers
\* first, then the Product's own price.                    metadata.ts:543-590
ExtractPriceFromJsonLd(b, pref) ==
  LET currency == DetectCurrency(IF b.priceCurrency.present THEN b.priceCurrency
                                 ELSE Text(0, ""), pref)
  IN IF b.isProduct /\ b.offerPrice.present /\ ParsePriceAmount(b.offerPrice) > 0
       THEN [amount |-> ParsePriceAmount(b.offerPrice), currency |-> currency]
     ELSE IF b.isProduct /\ b.itemPrice.present /\ ParsePriceAmount(b.itemPrice) > 0
       THEN [amount |-> ParsePriceAmount(b.itemPrice), currency |-> currency]
     ELSE NoPrice

\* One iteration of the loop over the script blocks: JSON.parse may throw
\* (swallowed), else extractPriceFromJsonLd.                metadata.ts:439-449
BlockPrice(b, pref) == IF b.json THEN ExtractPriceFromJsonLd(b, pref) ELSE NoPrice

\* Variant of JsonLdPrice without the break: the last block with a positive
\* amount wins.
RECURSIVE JsonLdPrice_NoBreak(_, _)
JsonLdPrice_NoBreak(blocks, pref) ==
  IF blocks = << >> THEN NoPrice
  ELSE LET rest == JsonLdPrice_NoBreak(Tail(blocks), pref)
       IN IF rest.amount > 0 THEN rest ELSE BlockPrice(Head(blocks), pref)

\* Strategy 2: the loop over the JSON-LD blocks, left at the first block
\* whose price is positive.                                 metadata.ts:435-452
RECURSIVE JsonLdPrice(_, _)
JsonLdPrice(blocks, pref) ==
  IF blocks = << >> THEN NoPrice
  ELSE IF BlockPrice(Head(blocks), pref).amount > 0
         THEN BlockPrice(Head(blocks), pref)
  ELSE JsonLdPrice(Tail(blocks), pref)

\* The price part of parseMetadataFromHtml.                 metadata.ts:419-457
ParsePriceFromHtml(h) ==
  LET og == OgPrice(h)
      ld == IF og.amount = 0 THEN JsonLdPrice(h.blocks, h.pref) ELSE og
  IN IF ld.amount = 0 THEN HtmlExtractPriceFromText(h.text, h.pref) ELSE ld

JsonLdBlocks ==
  { [json |-> FALSE, isProduct |-> TRUE,  offerPrice |-> Text(2100, ""),
     itemPrice |-> Absent, priceCurrency |-> Absent],
    [json |-> TRUE,  isProduct |-> FALSE, offerPrice |-> Text(2200, ""),
     itemPrice |-> Absent, priceCurrency |-> Absent],
    [json |-> TRUE,  isProduct |-> TRUE,  offerPrice |-> Text(2300, ""),
     itemPrice |-> Absent, priceCurrency |-> Text(0, "USD")],
    [json |-> TRUE,  isProduct |-> TRUE,  offerPrice |-> Text(0, ""),
     itemPrice |-> Text(2400, ""), priceCurrency |-> Absent],
    [json |-> TRUE,  isProduct |-> TRUE,  offerPrice |-> Absent,
     itemPrice |-> Absent, priceCurrency |-> Absent] }

Pages ==
  [op : {"parse"},
   ogAmount : {Absent, Text(1000, ""), Text(0, "")},
   ogCurrency : {Absent, Text(0, "MYR")},
   blocks : UNION {[1..k -> JsonLdBlocks] : k \in 0..MaxBlocks},
   text : {Absent, Text(4000, "$"), Text(4000, "price:"), Text(4000, "")},
   pref : {"", "AUD"}]

InitParse ==
  /\ InitSearch /\ creds = TRUE
  /\ InitFetch
  /\ fnIn \in Pages
  /\ fnOut = NoOutput
  /\ ui = NoSearchYet

ApplyParse ==
  /\ fnIn.op = "parse"
  /\ ~fnOut.done
  /\ fnOut' = [done |-> TRUE, value |-> ParsePriceFromHtml(fnIn)]
  /\ UNCHANGED <<searchVars, fetchVars, fnIn, ui>>

NextParse == ApplyParse

SpecParse == InitParse /\ [][NextParse]_vars

\* ------------------------------------------- steps 2-5 of searchItems alone
MaxMergeItems == 2     \* items per branch handed to the merge

LinkASlash == [LinkA EXCEPT !.slash = TRUE]
LinkACaps  == [LinkA EXCEPT !.caps = TRUE]

\* Items of the two API responses: the same page under three spellings, and
\* a second page with and without a price.
MergeItems ==
  {[link |-> l, amount |-> 0, signal |-> FALSE] : l \in {LinkA, LinkASlash, LinkACaps, LinkB}}
  \cup {[link |-> LinkB, amount |-> ItemPrice.amount, signal |-> TRUE]}

MergeResponses == UNION {[1..k -> MergeItems] : k \in 0..MaxMergeItems}

InitMerge ==
  /\ InitSearch /\ creds = TRUE
  /\ InitFetch
  /\ fnIn \in [op : {"merge"}, regular : MergeResponses, shopping : MergeResponses]
  /\ fnOut = NoOutput
  /\ ui = NoSearchYet

\* Steps 2-5 run on regularData.items and shoppingItems.       search.ts:298-334
ApplyMerge ==
  /\ fnIn.op = "merge"
  /\ ~fnOut.done
  /\ LET initialResults == InitialResults(fnIn.regular, fnIn.shopping)
     IN fnOut' = [done |-> TRUE, enriched |-> {},
                  itemsToEnhance |-> initialResults, value |-> initialResults]
  /\ UNCHANGED <<searchVars, fetchVars, fnIn, ui>>

\* The Metadata a page of the merged list resolves to: a price and no image.
MergeMetadata(u) ==
  {m \in MetadataOf(u) : m.title = "Blue Mug" /\ m.price.amount > 0 /\ m.image = ""}

\* One task of enhanceResults on the merged list, cache-miss path with useful
\* metadata: the enhanced entry is written back.               search.ts:344-385
ApplyEnrich(i, m) ==
  /\ fnIn.op = "merge"
  /\ fnOut.done
  /\ i \in DOMAIN fnOut.itemsToEnhance
  /\ i \notin fnOut.enriched
  /\ LET result == fnOut.itemsToEnhance[i]
     IN /\ NeedsEnhance(result)
        /\ m \in MergeMetadata(result.url)
        /\ HasUsefulData(m)
        /\ fnOut' = [fnOut EXCEPT
                       !.enriched = @ \cup {i},
                       !.value = WriteBack(@, result, MergeFetched(result, m))]
  /\ UNCHANGED <<searchVars, fetchVars, fnIn, ui>>

NextMerge ==
  \/ ApplyMerge
  \/ \E i \in 1..(2 * MaxMergeItems) :
       \E u \in {LinkA, LinkASlash, LinkACaps, LinkB} :
         \E m \in MergeMetadata(u) : ApplyEnrich(i, m)

SpecMerge == InitMerge /\ [][NextMerge]_vars

SpecFetch == InitFetchOnly /\ [][NextFetch]_vars


\* ------------------------------------------------ parsePriceAmount on strings
MaxStrLen == 6     \* characters in a price string

\* A price string is a sequence of characters; "-" stands for every character
\* that the cleaning removes (sign, currency symbol, letter, space).
Digits == <<"0", "1", "2", "3", "4", "5", "6", "7", "8", "9">>

DigitChars == {Digits[i] : i \in DOMAIN Digits}

DigitValue(c) == (CHOOSE i \in DOMAIN Digits : Digits[i] = c) - 1

PriceChars == {"0", "1", ".", ",", "-"}

PriceStrings == UNION {[1..k -> PriceChars] : k \in 0..MaxStrLen}

\* The value of a run of digit characters, read as a decimal integer
RECURSIVE IntVal(_)
IntVal(ds) ==
  IF ds = << >> THEN 0
  ELSE 10 * IntVal(SubSeq(ds, 1, Len(ds) - 1)) + DigitValue(ds[Len(ds)])

\* A run of fraction digits without its trailing zeros
RECURSIVE StripZeros(_)
StripZeros(ds) ==
  IF ds # << >> /\ ds[Len(ds)] = "0" THEN StripZeros(SubSeq(ds, 1, Len(ds) - 1)) ELSE ds

\* A number: its integer part and its fraction digits; NaN apart
Num(intDigits, fracDigits) ==
  [nan |-> FALSE, neg |-> FALSE, int |-> IntVal(intDigits), frac |-> StripZeros(fracDigits)]

NaN == [nan |-> TRUE, neg |-> FALSE, int |-> 0, frac |-> << >>]

Zero == Num(<< >>, << >>)

\* The longest prefix of s made of digit characters
RECURSIVE DigitPrefix(_)
DigitPrefix(s) ==
  IF s # << >> /\ Head(s) \in DigitChars THEN <<Head(s)>> \o DigitPrefix(Tail(s)) ELSE << >>

\* parseFloat(s): an optional sign, then the longest prefix
\* digits [ "." digits ] with at least one digit; NaN when there is none.
\*                                                search.ts:100, metadata.ts:618
ParseFloat(s) ==
  LET neg  == s # << >> /\ Head(s) = "-"
      body == IF neg THEN Tail(s) ELSE s
      ip   == DigitPrefix(body)
      rest == SubSeq(body, Len(ip) + 1, Len(body))
      fp   == IF rest # << >> /\ Head(rest) = "." THEN DigitPrefix(Tail(rest)) ELSE << >>
  IN IF ip = << >> /\ fp = << >> THEN NaN
     ELSE [Num(ip, fp) EXCEPT !.neg = neg /\ (IntVal(ip) > 0 \/ StripZeros(fp) # << >>)]

\* Variant of Cleaned that keeps the digits only.
Cleaned_DigitsOnly(s) == SelectSeq(s, LAMBDA c : c \in DigitChars)

\* String(priceStr).replace(/[^\d.,]/g, '')                       search.ts:86
Cleaned(s) == SelectSeq(s, LAMBDA c : c \in DigitChars \cup {".", ","})

\* s.includes(c)
Includes(s, c) == \E i \in DOMAIN s : s[i] = c

\* s.lastIndexOf(c), 1-based, 0 when absent
LastIndexOf(s, c) ==
  IF Includes(s, c) THEN CHOOSE i \in DOMAIN s : s[i] = c /\ \A j \in DOMAIN s : s[j] = c => j <= i
  ELSE 0

\* s.replace(/c/g, '')
RemoveAll(s, c) == SelectSeq(s, LAMBDA x : x # c)

\* s.replace(',', '.'): a string pattern replaces the first occurrence only
\*                                                       search.ts:93, 97
ReplaceFirstComma(s) ==
  IF Includes(s, ",")
    THEN LET i == CHOOSE i \in DOMAIN s : s[i] = "," /\ \A j \in DOMAIN s : s[j] = "," => i <= j
         IN [s EXCEPT ![i] = "."]
    ELSE s

\* /,\d{2}$/.test(s)                                              search.ts:96
EndsCommaTwoDigits(s) ==
  /\ Len(s) >= 3
  /\ s[Len(s) - 2] = ","
  /\ s[Len(s) - 1] \in DigitChars
  /\ s[Len(s)] \in DigitChars

\* A number is positive
Positive(n) == ~n.nan /\ ~n.neg /\ (n.int > 0 \/ n.frac # << >>)

\* Variant of ParsePriceAmountOf that hands the string to parseFloat and
\* returns what comes back: no cleaning, no test of the result.
ParsePriceAmountOf_Raw(priceStr) == ParseFloat(priceStr)

\* parsePriceAmount(priceStr) for a string   search.ts:83-102, metadata.ts:593-621
ParsePriceAmountOf(priceStr) ==
  LET cleaned == Cleaned(priceStr)
      hasComma == Includes(cleaned, ",")
      hasDot   == Includes(cleaned, ".")
      normalized ==
        IF hasComma /\ hasDot
          THEN (IF LastIndexOf(cleaned, ",") > LastIndexOf(cleaned, ".")
                  THEN ReplaceFirstComma(RemoveAll(cleaned, "."))
                  ELSE RemoveAll(cleaned, ","))
        ELSE IF hasComma
          THEN (IF EndsCommaTwoDigits(cleaned)
                  THEN ReplaceFirstComma(cleaned)
                  ELSE RemoveAll(cleaned, ","))
        ELSE cleaned
      parsed == ParseFloat(normalized)
  IN IF priceStr = << >> \/ cleaned = << >> THEN Zero
     ELSE IF Positive(parsed) THEN parsed ELSE Zero

InitAmount ==
  /\ InitSearch /\ creds = TRUE
  /\ InitFetch
  /\ fnIn \in [op : {"amount"}, str : PriceStrings]
  /\ fnOut = NoOutput
  /\ ui = NoSearchYet

ApplyAmount ==
  /\ fnIn.op = "amount"
  /\ ~fnOut.done
  /\ fnOut' = [done |-> TRUE, value |-> ParsePriceAmountOf(fnIn.str)]
  /\ UNCHANGED <<searchVars, fetchVars, fnIn, ui>>

NextAmount == ApplyAmount

SpecAmount == InitAmount /\ [][NextAmount]_vars


\* --------------------------------------------- formatPrice and back again
\* The decimal digits of a natural number
RECURSIVE DigitsOf(_)
DigitsOf(n) ==
  IF n < 10 THEN <<Digits[n + 1]>> ELSE DigitsOf(n \div 10) \o <<Digits[(n % 10) + 1]>>

\* The amount with integer part i and c hundredths
Amount(i, c) == Num(DigitsOf(i), <<Digits[(c \div 10) + 1], Digits[(c % 10) + 1]>>)

\* amount.toFixed(2) of an amount with at most two decimals: the integer
\* digits, a dot, two fraction digits, no grouping.          metadata.ts:715-717
ToFixed2(a) ==
  DigitsOf(a.int) \o <<".">> \o
  (CASE Len(a.frac) = 0 -> <<"0", "0">>
     [] Len(a.frac) = 1 -> a.frac \o <<"0">>
     [] OTHER -> SubSeq(a.frac, 1, 2))

\* formatPrice(price): 'Price unknown!', 'A$' + fixed, or the currency code,
\* a blank and '$' + fixed; every character but the digits and the dot is
\* written "-".                                              metadata.ts:710-718
FormatPrice(price) ==
  IF ~Positive(price.amount) THEN [k \in 1..14 |-> "-"]
  ELSE IF price.currency = "AUD" THEN <<"-", "-">> \o ToFixed2(price.amount)
  ELSE [k \in 1..(IF price.currency = "UNKNOWN" THEN 9 ELSE 5) |-> "-"]
       \o ToFixed2(price.amount)

FormatInputs ==
  [op : {"format"},
   int : {0, 1, 12, 999, 1000, 1234, 100000},
   cents : 0..99,
   currency : {"AUD", "USD", "UNKNOWN"}]

InitFormat ==
  /\ InitSearch /\ creds = TRUE
  /\ InitFetch
  /\ fnIn \in FormatInputs
  /\ fnOut = NoOutput
  /\ ui = NoSearchYet

\* parsePriceAmount(formatPrice(price))
ApplyFormatParse ==
  /\ fnIn.op = "format"
  /\ ~fnOut.done
  /\ LET text == FormatPrice([amount |-> Amount(fnIn.int, fnIn.cents),
                              currency |-> fnIn.currency])
     IN fnOut' = [done |-> TRUE, text |-> text, value |-> ParsePriceAmountOf(text)]
  /\ UNCHANGED <<searchVars, fetchVars, fnIn, ui>>

NextFormat == ApplyFormatParse

SpecFormat == InitFormat /\ [][NextFormat]_vars


\* ------------------------------------------------------ detectCurrency alone
\* Texts and URLs are sequences of characters; a currency symbol outside
\* ASCII is one character, written with its name.
UpperLetters ==
  <<"A", "B", "C", "D", "E", "F", "G", "H", "I", "J", "K", "L", "M",
    "N", "O", "P", "Q", "R", "S", "T", "U", "V", "W", "X", "Y", "Z">>

LowerLetters ==
  <<"a", "b", "c", "d", "e", "f", "g", "h", "i", "j", "k", "l", "m",
    "n", "o", "p", "q", "r", "s", "t", "u", "v", "w", "x", "y", "z">>

\* text.toLowerCase()                                         metadata.ts:724
ToLowerCase(s) ==
  [i \in DOMAIN s |->
     IF \E k \in DOMAIN UpperLetters : UpperLetters[k] = s[i]
       THEN LowerLetters[CHOOSE k \in DOMAIN UpperLetters : UpperLetters[k] = s[i]]
       ELSE s[i]]

\* s.includes(pattern): pattern occurs somewhere in s
IncludesStr(s, pattern) ==
  \E i \in 1..(Len(s) - Len(pattern) + 1) : SubSeq(s, i, i + Len(pattern) - 1) = pattern

\* The chain of tests on the text, in the order of the code   metadata.ts:726-744
TextRules ==
  <<
    [currency |-> "MYR", marks |-> {<<"m", "y", "r">>, <<"r", "m">>}],
    [currency |-> "SGD", marks |-> {<<"s", "g", "d">>, <<"s", "$">>}],
    [currency |-> "NZD", marks |-> {<<"n", "z", "d">>, <<"n", "z", "$">>}],
    [currency |-> "GBP", marks |-> {<<"g", "b", "p">>, <<"<pound>">>}],
    [currency |-> "EUR", marks |-> {<<"e", "u", "r">>, <<"<euro>">>}],
    [currency |-> "CAD", marks |-> {<<"c", "a", "d">>, <<"c", "$">>}],
    [currency |-> "JPY", marks |-> {<<"j", "p", "y">>, <<"<yen>">>, <<"y", "e", "n">>}],
    [currency |-> "CNY", marks |-> {<<"c", "n", "y">>, <<"y", "u", "a", "n">>, <<"r", "m", "b">>}],
    [currency |-> "HKD", marks |-> {<<"h", "k", "d">>, <<"h", "k", "$">>}],
    [currency |-> "INR", marks |-> {<<"i", "n", "r">>, <<"<rupee>">>, <<"r", "u", "p", "e", "e">>, <<"r", "u", "p", "e", "e", "s">>}],
    [currency |-> "PHP", marks |-> {<<"p", "h", "p">>, <<"<peso>">>, <<"p", "e", "s", "o">>, <<"p", "e", "s", "o", "s">>}],
    [currency |-> "THB", marks |-> {<<"t", "h", "b">>, <<"<baht>">>, <<"b", "a", "h", "t">>}],
    [currency |-> "IDR", marks |-> {<<"i", "d", "r">>, <<"r", "u", "p", "i", "a", "h">>}],
    [currency |-> "VND", marks |-> {<<"v", "n", "d">>, <<"<dong>">>, <<"d", "o", "n", "g">>}],
    [currency |-> "KRW", marks |-> {<<"k", "r", "w">>, <<"<won>">>, <<"w", "o", "n">>}],
    [currency |-> "TWD", marks |-> {<<"t", "w", "d">>, <<"n", "t", "$">>}],
    [currency |-> "AUD", marks |-> {<<"a", "u", "d">>, <<"a", "u", "$">>, <<"a", "$">>, <<"a", "u", "s", "t", "r", "a", "l", "i", "a", "n", " ", "d", "o", "l", "l", "a", "r">>}],
    [currency |-> "USD", marks |-> {<<"u", "s", "d">>, <<"u", "s", "$">>, <<"u", "s", " ", "d", "o", "l", "l", "a", "r">>}]
  >>

\* The chain of tests on options.sourceUrl                    metadata.ts:747-763
TldRules ==
  <<
    [currency |-> "AUD", marks |-> {<<".", "c", "o", "m", ".", "a", "u">>}],
    [currency |-> "MYR", marks |-> {<<".", "c", "o", "m", ".", "m", "y">>}],
    [currency |-> "SGD", marks |-> {<<".", "c", "o", "m", ".", "s", "g">>}],
    [currency |-> "NZD", marks |-> {<<".", "c", "o", ".", "n", "z">>}],
    [currency |-> "GBP", marks |-> {<<".", "c", "o", ".", "u", "k">>}],
    [currency |-> "HKD", marks |-> {<<".", "c", "o", "m", ".", "h", "k">>}],
    [currency |-> "INR", marks |-> {<<".", "c", "o", ".", "i", "n">>, <<".", "i", "n">>}],
    [currency |-> "PHP", marks |-> {<<".", "c", "o", "m", ".", "p", "h">>, <<".", "p", "h">>}],
    [currency |-> "THB", marks |-> {<<".", "c", "o", ".", "t", "h">>, <<".", "t", "h">>}],
    [currency |-> "IDR", marks |-> {<<".", "c", "o", ".", "i", "d">>, <<".", "i", "d">>}],
    [currency |-> "VND", marks |-> {<<".", "c", "o", "m", ".", "v", "n">>, <<".", "v", "n">>}],
    [currency |-> "KRW", marks |-> {<<".", "c", "o", ".", "k", "r">>, <<".", "k", "r">>}],
    [currency |-> "TWD", marks |-> {<<".", "c", "o", "m", ".", "t", "w">>, <<".", "t", "w">>}],
    [currency |-> "JPY", marks |-> {<<".", "c", "o", ".", "j", "p">>, <<".", "j", "p">>}],
    [currency |-> "CNY", marks |-> {<<".", "c", "n">>}]
  >>

\* The chain of tests on options.userLocation                 metadata.ts:768-784
LocationRules ==
  <<
    [location |-> "AU", currency |-> "AUD"],
    [location |-> "MY", currency |-> "MYR"],
    [location |-> "SG", currency |-> "SGD"],
    [location |-> "US", currency |-> "USD"],
    [location |-> "GB", currency |-> "GBP"],
    [location |-> "UK", currency |-> "GBP"],
    [location |-> "HK", currency |-> "HKD"],
    [location |-> "IN", currency |-> "INR"],
    [location |-> "PH", currency |-> "PHP"],
    [location |-> "TH", currency |-> "THB"],
    [location |-> "ID", currency |-> "IDR"],
    [location |-> "VN", currency |-> "VND"],
    [location |-> "KR", currency |-> "KRW"],
    [location |-> "TW", currency |-> "TWD"],
    [location |-> "JP", currency |-> "JPY"],
    [location |-> "CN", currency |-> "CNY"]
  >>

\* The currency of the first rule one of whose marks occurs in s, "" if none
RECURSIVE FirstIncluded(_, _)
FirstIncluded(rules, s) ==
  IF rules = << >> THEN ""
  ELSE IF \E m \in Head(rules).marks : IncludesStr(s, m) THEN Head(rules).currency
  ELSE FirstIncluded(Tail(rules), s)

\* The currency of options.userLocation, "" if none
LocationCurrency(loc) ==
  IF \E k \in DOMAIN LocationRules : LocationRules[k].location = loc
    THEN LocationRules[CHOOSE k \in DOMAIN LocationRules : LocationRules[k].location = loc].currency
    ELSE ""

\* detectCurrency(text, options); pref is what getDefaultCurrency() reads from
\* localStorage; "" and << >> stand for a missing option.     metadata.ts:720-795
DetectCurrencyOf(text, options, pref) ==
  LET s == ToLowerCase(text)
      byText == FirstIncluded(TextRules, s)
      byUrl  == IF options.sourceUrl # << >>
                  THEN FirstIncluded(TldRules, ToLowerCase(options.sourceUrl))
                  ELSE ""
  IN IF byText # "" THEN byText
     ELSE IF IncludesStr(s, <<"$">>)
       THEN (IF byUrl # "" THEN byUrl
             ELSE IF options.defaultCurrency # "" THEN options.defaultCurrency
             ELSE IF LocationCurrency(options.userLocation) # ""
               THEN LocationCurrency(options.userLocation)
             ELSE IF pref # "" /\ pref # "UNKNOWN" THEN pref
             ELSE "USD")
     ELSE "UNKNOWN"

CurrencyTexts ==
  {<<"$", "5">>,
   <<"U", "S", "$", "5">>,
   <<"A", "$", "5">>,
   <<"A", "U", "$", "5">>,
   <<"N", "Z", "$", "5">>,
   <<"H", "K", "$", "5">>,
   <<"S", "$", "5">>,
   <<"R", "M", "5">>,
   <<"5">>,
   <<>>}

SourceUrls ==
  {<<>>,
   <<"s", ".", "c", "o", "m", "/", "p">>,
   <<"s", ".", "c", "o", "m", ".", "a", "u", "/", "p">>,
   <<"s", ".", "c", "o", ".", "u", "k", "/", "p">>,
   <<"s", ".", "c", "o", "m", "/", "a", ".", "p", "h", "p">>,
   <<"s", ".", "j", "p", "/", "p">>}

CurrencyInputs ==
  [op : {"currency"},
   text : CurrencyTexts,
   sourceUrl : SourceUrls,
   defaultCurrency : {"", "AUD", "UNKNOWN"},
   userLocation : {"", "SG", "ZZ"},
   pref : {"", "UNKNOWN", "MYR"}]

InitCurrency ==
  /\ InitSearch /\ creds = TRUE
  /\ InitFetch
  /\ fnIn \in CurrencyInputs
  /\ fnOut = NoOutput
  /\ ui = NoSearchYet

ApplyCurrency ==
  /\ fnIn.op = "currency"
  /\ ~fnOut.done
  /\ fnOut' = [done |-> TRUE,
               value |-> DetectCurrencyOf(fnIn.text,
                           [sourceUrl |-> fnIn.sourceUrl,
                            defaultCurrency |-> fnIn.defaultCurrency,
                            userLocation |-> fnIn.userLocation], fnIn.pref)]
  /\ UNCHANGED <<searchVars, fetchVars, fnIn, ui>>

NextCurrency == ApplyCurrency

SpecCurrency == InitCurrency /\ [][NextCurrency]_vars


\* ---------------------------------------------------- AddItem's search list
MaxSearches == 2     \* searches the user starts

\* The lists of URLs a searchItems call passes to onProgress when it resolves
ResultLists == {<< >>, <<LinkA>>, <<LinkA, LinkB>>}

\* handleProgress(result): replace the entry with the same url, else append
\*                                                         AddItem.tsx:313-323
HandleProgress(prevResults, result) ==
  LET existingIndex == FindIndex(prevResults, result.url)
  IN IF existingIndex # 0 THEN [prevResults EXCEPT ![existingIndex] = result]
     ELSE Append(prevResults, result)

\* handleProgress applied to each result of rs in turn
RECURSIVE HandleProgressAll(_, _)
HandleProgressAll(prevResults, rs) ==
  IF rs = << >> THEN prevResults
  ELSE HandleProgressAll(HandleProgress(prevResults, Head(rs)), Tail(rs))

\* The user submits the search form (the button is disabled while
\* searching): a fresh controller, searching, an empty list, searchItems is
\* called with handleProgress.                              AddItem.tsx:301-325
HandleSearch ==
  /\ ~ui.searching
  /\ ui.calls < MaxSearches
  /\ ui' = [ui EXCEPT !.searching = TRUE, !.calls = @ + 1, !.pending = ui.calls + 1,
                      !.shown = ui.calls + 1, !.searchResults = << >>, !.error = ""]
  /\ UNCHANGED <<searchVars, fetchVars, pureVars>>

\* The pending searchItems call resolves: it has passed its initial results
\* to onProgress and started its enrichment tasks (search.ts:336-398);
\* finally setSearching(false).                             AddItem.tsx:325-334
SearchResolves(urls) ==
  /\ ui.pending # 0
  /\ LET c  == ui.pending
         rs == [i \in DOMAIN urls |-> [url |-> urls[i], call |-> c, enriched |-> FALSE]]
     IN ui' = [ui EXCEPT !.searching = FALSE, !.pending = 0,
                         !.searchResults = HandleProgressAll(@, rs),
                         !.tasks = @ \cup {<<c, urls[i]>> : i \in DOMAIN urls},
                         !.error = IF urls = << >> THEN "No results found" ELSE @]
  /\ UNCHANGED <<searchVars, fetchVars, pureVars>>

\* The pending searchItems call rejects: catch, finally setSearching(false)
\*                                                         AddItem.tsx:330-334
SearchRejects ==
  /\ ui.pending # 0
  /\ ui' = [ui EXCEPT !.searching = FALSE, !.pending = 0,
                      !.error = "An unexpected error occurred"]
  /\ UNCHANGED <<searchVars, fetchVars, pureVars>>

\* Cancel (shown while searching): abort the controller, which makes the
\* pending call reject with an AbortError, setSearching(false),
\* setSearchResults([]).                                    AddItem.tsx:484-491
CancelClick ==
  /\ ui.searching
  /\ ui' = [ui EXCEPT !.searching = FALSE, !.pending = 0, !.shown = 0,
                      !.searchResults = << >>]
  /\ UNCHANGED <<searchVars, fetchVars, pureVars>>

\* Clear Results (shown while the list is not empty)   AddItem.tsx:290-293, 501-507
HandleClearSearch ==
  /\ ui.searchResults # << >>
  /\ ui' = [ui EXCEPT !.shown = 0, !.searchResults = << >>, !.error = ""]
  /\ UNCHANGED <<searchVars, fetchVars, pureVars>>

\* An enrichment task of call c ends with useful metadata and calls the
\* onProgress it was given: the handleProgress of that call's handleSearch,
\* which tests nothing before it updates the list.
\*                                       search.ts:380, AddItem.tsx:313-323
EnrichProgress(c, u) ==
  /\ <<c, u>> \in ui.tasks
  /\ ui' = [ui EXCEPT !.tasks = @ \ {<<c, u>>},
                      !.searchResults =
                         HandleProgress(@, [url |-> u, call |-> c, enriched |-> TRUE])]
  /\ UNCHANGED <<searchVars, fetchVars, pureVars>>

\* An enrichment task ends without an onProgress call     search.ts:386-392
EnrichSilent(c, u) ==
  /\ <<c, u>> \in ui.tasks
  /\ ui' = [ui EXCEPT !.tasks = @ \ {<<c, u>>}]
  /\ UNCHANGED <<searchVars, fetchVars, pureVars>>

NextAddItem ==
  \/ HandleSearch
  \/ \E urls \in ResultLists : SearchResolves(urls)
  \/ SearchRejects
  \/ CancelClick
  \/ HandleClearSearch
  \/ \E c \in 1..MaxSearches, u \in {LinkA, LinkB} : EnrichProgress(c, u)
  \/ \E c \in 1..MaxSearches, u \in {LinkA, LinkB} : EnrichSilent(c, u)

InitAddItem == Init /\ creds = TRUE

SpecAddItem == InitAddItem /\ [][NextAddItem]_vars


\* ------------------------------------------------- the title of a fetched page
MaxTitleLen == 5     \* characters between <title> and </title>

\* The text of the title element is a sequence of characters: "a" stands
\* for every character that is neither white space nor a separator.
TitleChars == {"a", " ", "-", "|", ":"}

\* [-|:]                                                      metadata.ts:398
SeparatorChars == {"-", "|", ":"}

\* The texts /<title[^>]*>([^<]+)<\/title>/i captures; the empty one stands
\* for a page the expression does not match.                  metadata.ts:412
TitleTexts == UNION {[1..k -> TitleChars] : k \in 0..MaxTitleLen}

RECURSIVE TrimStart(_)
TrimStart(s) == IF s # << >> /\ Head(s) = " " THEN TrimStart(Tail(s)) ELSE s

RECURSIVE TrimEnd(_)
TrimEnd(s) ==
  IF s # << >> /\ s[Len(s)] = " " THEN TrimEnd(SubSeq(s, 1, Len(s) - 1)) ELSE s

\* String.prototype.trim()
Trim(s) == TrimEnd(TrimStart(s))

\* Where the leftmost match of /\s*[-|:]\s*[^-|:]+$/ starts, 0 when there is
\* none. A match runs to the end and holds one separator followed by at
\* least one character and no further separator: the separator is the last
\* one of the title and is not its last character; the match starts at the
\* beginning of the white space in front of it.               metadata.ts:398
SuffixStart(title) ==
  LET seps == {i \in DOMAIN title : title[i] \in SeparatorChars}
  IN IF seps = {} THEN 0
     ELSE LET q == CHOOSE i \in seps : \A j \in seps : j <= i
          IN IF q = Len(title) THEN 0
             ELSE CHOOSE p \in 1..q :
                    /\ \A j \in p..(q - 1) : title[j] = " "
                    /\ p = 1 \/ title[p - 1] # " "

\* cleanTitle: title.replace(/\s*[-|:]\s*[^-|:]+$/, '').trim()
\*                                                        metadata.ts:396-400
CleanTitle(title) ==
  LET p == SuffixStart(title)
  IN IF p = 0 THEN Trim(title) ELSE Trim(SubSeq(title, 1, p - 1))

InitTitle ==
  /\ InitSearch /\ creds = TRUE
  /\ InitFetch
  /\ fnIn \in [op : {"title"}, text : TitleTexts]
  /\ fnOut = NoOutput
  /\ ui = NoSearchYet

\* parseMetadataFromHtml, the title: the trimmed capture, an error when it
\* is empty, else the cleaned title in the Metadata that fetchMetadata
\* returns as it is.                          metadata.ts:412-413, 459-468, 528-530
ApplyTitle ==
  /\ fnIn.op = "title"
  /\ ~fnOut.done
  /\ LET title == Trim(fnIn.text)
     IN fnOut' = IF title = << >>
                   THEN [done |-> TRUE, rejected |-> TRUE, raw |-> title, title |-> << >>]
                   ELSE [done |-> TRUE, rejected |-> FALSE, raw |-> title,
                         title |-> CleanTitle(title)]
  /\ UNCHANGED <<searchVars, fetchVars, fnIn, ui>>

NextTitle == ApplyTitle

SpecTitle == InitTitle /\ [][NextTitle]_vars

\* ------------------------------------------------------------------ claims
\* onProgress invocations of the current call made for url u
Invocations(u) == {j \in DOMAIN log : log[j].result.url = u}
InvocationsIn(u, ph) == {j \in Invocations(u) : log[j].phase = ph}
ResultUrls == {initial[i].url : i \in DOMAIN initial}

\* C1: a searchItems call whose query is an absolute http(s) URL issues no
\* search-API request; it resolves only with the one-element list built from
\* the Resolver's result and rejects only with the Resolver's failure, and a
\* Resolver failure rejects it (it is never continued as a text search).
C1_UrlQueryNeverSearches ==
  kind = "url" =>
    /\ apiCalls = 0
    /\ pc \notin {"dual_fetch", "read_body"}
    /\ ret.status = "resolved" => urlFetch = "resolved" /\ Len(results) = 1
    /\ ret.status = "rejected" => urlFetch = "rejected" /\ ret.error \in ResolverErrors
    /\ urlFetch = "rejected" => ret.status = "rejected"

\* C2: in a free-text call, whenever anything has been passed to onProgress
\* or the promise has resolved, the invocations begin with every initial
\* result, in list order, and every enrichment invocation comes after them.
C2_InitialBeforeEnrichedAndReturn ==
  (kind = "text" /\ (log # << >> \/ ret.status = "resolved")) =>
    /\ Len(log) >= Len(initial)
    /\ SubSeq(log, 1, Len(initial)) = EmitInitial(initial)
    /\ \A j \in DOMAIN log : j > Len(initial) => log[j].phase = "enriched"

C2_Witness ==
  /\ kind = "text"
  /\ ret.status = "resolved"
  /\ Len(initial) = 2
  /\ \E j \in DOMAIN log : log[j].phase = "enriched"
  /\ \E i \in DOMAIN task : task[i] = "hit"

\* C3: for every URL of the result set onProgress has been invoked at most
\* twice, at most once with the initial and at most once with an enriched
\* result, the initial one first; and every enriched invocation carries a
\* price above 0 or a non-empty image (whatever the first one carried).
C3_AtMostTwicePerUrl ==
  /\ \A u \in ResultUrls :
       /\ Cardinality(Invocations(u)) <= 2
       /\ Cardinality(InvocationsIn(u, "initial")) <= 1
       /\ Cardinality(InvocationsIn(u, "enriched")) <= 1
       /\ \A j \in InvocationsIn(u, "enriched") :
            \E k \in InvocationsIn(u, "initial") : k < j
  /\ \A j \in DOMAIN log :
       (log[j].phase = "enriched") =>
         (log[j].result.price.amount > 0 \/ log[j].result.image # "")

C3_Witness ==
  /\ Len(initial) = 2
  /\ \A u \in ResultUrls : Cardinality(Invocations(u)) = 2
  /\ \E i \in DOMAIN task : task[i] = "ok"
  /\ \E i \in DOMAIN task : task[i] = "hit"

\* C4: every enriched result passed to onProgress still has a price above 0
\* if the initial result of its URL had one, and a non-empty image if the
\* initial result had one - for tasks served from the cache and for tasks
\* that fetched.
C4_EnrichmentNeverRegresses ==
  \A j \in DOMAIN log : \A i \in DOMAIN initial :
    (log[j].phase = "enriched" /\ log[j].result.url = initial[i].url) =>
      /\ initial[i].price.amount > 0 => log[j].result.price.amount > 0
      /\ initial[i].image # "" => log[j].result.image # ""

\* C6: once the signal passed to searchItems is aborted, no enrichment task
\* of that call has a Resolver call in flight (none is and those
\* started earlier are aborted).
C6_AbortReachesEnrichment ==
  aborted => \A i \in DOMAIN task : task[i] # "fetching"

\* C7: in a free-text call whose signal is aborted, neither search-API
\* request is still in flight and the call is not suspended in the dual
\* fetch or the body read; unless it had resolved before the abort it is
\* rejected and nothing was passed to onProgress.
C7_AbortDuringDualFetch ==
  (kind = "text" /\ aborted) =>
    /\ regular # "inflight"
    /\ shopping \notin {"inflight", "body"}
    /\ pc \notin {"dual_fetch", "read_body"}
    /\ ret.status # "resolved" => (ret.status = "rejected" /\ log = << >>)

C7_Witness ==
  /\ kind = "text"
  /\ aborted
  /\ regular = "aborted"
  /\ shopping = "done"
  /\ ret = Rejected(AbortError)
  /\ log = << >>

\* C10: a Resolver failure in the enrichment task of an entry changes
\* nothing but the task: the step leaves the returned promise, the
\* onProgress invocations, the cache and the result list as they were; and
\* while the task stands failed the promise is resolved, the entry holds its
\* initial data and its URL has had the initial invocation only.
C10_FailureStep ==
  \A i \in DOMAIN task :
    (task[i] = "fetching" /\ i \in DOMAIN task' /\ task'[i] = "failed") =>
      /\ ret' = ret
      /\ log' = log
      /\ cache' = cache
      /\ results' = results

C10_FailedState ==
  \A i \in DOMAIN task :
    task[i] = "failed" =>
      /\ ret = Resolved
      /\ results[i] = initial[i]
      /\ InvocationsIn(initial[i].url, "enriched") = {}
      /\ Cardinality(Invocations(initial[i].url)) = 1

C10_EnrichmentFailureSwallowed == [][C10_FailureStep]_vars /\ []C10_FailedState

C10_Witness ==
  /\ \E i \in DOMAIN task : task[i] = "failed"
  /\ \E i \in DOMAIN task : task[i] = "ok"
  /\ ret = Resolved

\* C5: once Promise.any has delivered a winner, the html used is that
\* proxy's usable body and no other proxy request is still running.
C5_LosersCancelled ==
  winner # 0 =>
    /\ proxy[winner] = "ok"
    /\ BodyOutcome(fmHtml) = "ok"
    /\ \A p \in Proxies \ {winner} : proxy[p] \notin {"inflight", "reading"}

\* C8: when every proxy attempt has failed, fetchMetadata has rejected
\* exactly once, with the 'could not fetch' error and not with the error of
\* any proxy, and every proxy rejection had a handler.
C8_AllProxiesFail ==
  (\A p \in Proxies : proxy[p] = "failed") =>
    /\ fm = "rejected"
    /\ settles = 1
    /\ fmError = AllProxiesFailed
    /\ fmError \notin ProxyErrors \cup {AggregateError}
    /\ unhandled = {}

C8_Witness ==
  /\ \A p \in Proxies : proxy[p] = "failed" /\ proxyErr[p] = TimedOut
  /\ fm = "rejected"

\* C9: every proxy attempt that has not settled - waiting for the response
\* headers or reading the body - has its timeout armed, so that it is ended
\* after 15 s at the latest.
C9_AttemptsBoundedByTimeout ==
  \A p \in Proxies : proxy[p] \in {"inflight", "reading"} => timer[p] = "armed"

\* C11: once the shopping branch has failed (non-OK status, network error,
\* timeout, unreadable body) and the call was not aborted, the call is still
\* pending while the general-search request is in flight, goes on to read
\* the general-search body once that response is OK, and when it resolves
\* the list holds general-search results only; it can then reject only
\* because reading the general-search body failed.  A general-search network
\* error rejects the call, and so does a non-OK general-search status once
\* the shopping branch has returned.
C11_ShoppingFailureDegrades ==
  /\ (shopping = "failed" /\ ~aborted) =>
       /\ regular = "inflight" => (pc = "dual_fetch" /\ ret = Pending)
       /\ regular = "ok" => (pc \in {"read_body", "resolved"} \/ ret = Rejected(NetworkError))
       /\ ret.status = "resolved" =>
            \A i \in DOMAIN results : ~results[i].isShoppingResult
  /\ regular = "failed" => ret = Rejected(NetworkError)
  /\ (regular = "bad" /\ shopping \in {"done", "failed"}) => ret = Rejected(StatusError)

C11_Witness ==
  /\ shopping = "failed"
  /\ regular = "ok"
  /\ ~aborted
  /\ ret = Resolved
  /\ Len(results) >= 1

\* C12 (as claimed): with the credentials absent, every call - whatever its
\* query - has failed with the configuration error and no network call, to
\* the search API or to a proxy, has been issued.
C12_ConfigErrorForEveryQuery ==
  (~creds /\ pc # "idle") =>
    /\ ret = Rejected(ConfigError)
    /\ apiCalls = 0
    /\ urlFetch = "none"

\* C12 (amended): with the credentials absent no search-API request is ever
\* issued, and a call with a free-text query has failed with the
\* configuration error at once: no request of either branch exists, nothing
\* was passed to onProgress and no enrichment was started.  (A URL query
\* goes to the Resolver first, which needs no credentials.)
C12_ConfigErrorBeforeSearchCalls ==
  ~creds =>
    /\ apiCalls = 0
    /\ regular = "none" /\ shopping = "none"
    /\ kind = "text" =>
         /\ pc = "rejected"
         /\ ret = Rejected(ConfigError)
         /\ urlFetch = "none"
         /\ log = << >> /\ task = << >> /\ results = << >>

C12_Witness ==
  /\ ~creds
  /\ kind = "text"
  /\ ret = Rejected(ConfigError)
  /\ apiCalls = 0

\* C13: once the promise has resolved with a list, every result in the
\* list has been passed to onProgress, for free-text and URL queries alike.
C13_EveryResultPassedToProgress ==
  ret.status = "resolved" =>
    \A i \in DOMAIN results : \E j \in DOMAIN log : log[j].result = results[i]

\* Two links that differ at most by a trailing slash or by letter case
SameNormalized(a, b) == a.host = b.host /\ a.path = b.path

\* The candidates of both branches that pass the filters, in merge order
MergeOrder(regularData, shoppingItems) ==
  RegularItems(regularData) \o ProcessedShoppingItems(shoppingItems)

\* C14: the merged list holds no two entries whose URLs are equal after
\* normalization, and for every candidate link of either branch exactly one
\* entry with that normalized URL is in the list: the one spelled as the
\* first such candidate in merge order.
C14_OneEntryPerNormalizedUrl ==
  fnOut.done =>
    LET out  == fnOut.value
        cand == MergeOrder(fnIn.regular, fnIn.shopping)
    IN /\ \A i, j \in DOMAIN out :
            i # j => ~SameNormalized(out[i].url, out[j].url)
       /\ \A k \in DOMAIN cand :
            LET same  == {f \in DOMAIN cand : SameNormalized(cand[f].link, cand[k].link)}
                first == CHOOSE f \in same : \A g \in same : f <= g
                kept  == {i \in DOMAIN out : SameNormalized(out[i].url, cand[k].link)}
            IN /\ Cardinality(kept) = 1
               /\ \A i \in kept : out[i].url = cand[first].link

C14_Witness ==
  /\ fnOut.done
  /\ Len(fnIn.regular) = 2
  /\ fnIn.regular[1].link = LinkASlash
  /\ fnIn.regular[2].link = LinkA
  /\ Len(fnIn.shopping) = 2
  /\ fnIn.shopping[1].link = LinkACaps
  /\ fnIn.shopping[2].link = LinkB
  /\ Len(fnOut.value) = 2
  /\ fnOut.value[1].url = LinkASlash

\* First position, in the general-search response, of an item with link u
\* that passes the filters of step 2
PosInRegular(items, u) ==
  LET pass == {k \in DOMAIN items : /\ items[k].link = u
                                    /\ ~IsNonShoppingDomain(items[k].link)
                                    /\ IsProductLink(items[k])}
  IN CHOOSE k \in pass : \A g \in pass : k <= g

\* First position, in the shopping response, of an item with link u that
\* passes the filters of step 3
PosInShopping(items, u) ==
  LET pass == {k \in DOMAIN items : /\ items[k].link = u
                                    /\ ~IsNonShoppingDomain(items[k].link)
                                    /\ IsValidProductUrl(items[k].link)}
  IN CHOOSE k \in pass : \A g \in pass : k <= g

\* C15: in the list, before and after enrichment, every entry that came from
\* the general search precedes every entry that came from the shopping
\* search, and the entries of one branch stand in the order in which the API
\* returned them.
C15_BranchOrderPreserved ==
  fnOut.done =>
    LET out == fnOut.value
        reg == RegularItems(fnIn.regular)
        shp == ProcessedShoppingItems(fnIn.shopping)
        IsGeneral(i) == \E k \in DOMAIN reg : reg[k].link = out[i].url
    IN \A i, j \in DOMAIN out :
         i < j =>
           /\ IsGeneral(j) => IsGeneral(i)
           /\ (IsGeneral(i) /\ IsGeneral(j)) =>
                PosInRegular(fnIn.regular, out[i].url) < PosInRegular(fnIn.regular, out[j].url)
           /\ (~IsGeneral(i) /\ ~IsGeneral(j)) =>
                PosInShopping(fnIn.shopping, out[i].url) < PosInShopping(fnIn.shopping, out[j].url)

C15_Witness ==
  /\ fnOut.done
  /\ Len(fnIn.regular) = 2
  /\ fnIn.regular[1].link = LinkB /\ fnIn.regular[1].amount > 0
  /\ fnIn.regular[2].link = LinkACaps
  /\ Len(fnIn.shopping) = 2
  /\ fnIn.shopping[1].link = LinkB
  /\ fnIn.shopping[2].link = LinkA
  /\ Len(fnOut.value) = 2
  /\ fnOut.value[1].url = LinkB
  /\ fnOut.value[2].url = LinkACaps
  /\ fnOut.value[2].price = PagePrice
  /\ fnOut.enriched = {2}

\* The onProgress invocations of log that serve the data d for the URL u
ServedFromCache(lg, u, d) ==
  {j \in DOMAIN lg : /\ lg[j].phase = "enriched"
                     /\ lg[j].result.url = u
                     /\ lg[j].result.title = d.title
                     /\ lg[j].result.image = d.image
                     /\ lg[j].result.price = d.price}

\* C16: in the step in which the enrichment tasks look their URLs up, an
\* entry just stored (age 0) is a hit and the data passed on is the stored
\* Metadata; an entry at least one TTL old is a miss, is not served and a
\* fetch is started instead, exactly as when the sweep has removed it.
C16_LookupStep ==
  (pc = "read_body" /\ pc' = "resolved") =>
    \A i \in DOMAIN initial' :
      LET u == initial'[i].url
      IN NeedsEnhance(initial'[i]) =>
           /\ (u \in DOMAIN cache /\ cache[u].age = 0) =>
                /\ task'[i] = "hit"
                /\ ServedFromCache(log', u, cache[u].data) # {}
           /\ (u \in DOMAIN cache /\ cache[u].age >= CACHE_DURATION) =>
                /\ task'[i] = "fetching"
                /\ \A j \in DOMAIN log' :
                     log'[j].result.url = u => log'[j].phase = "initial"
           /\ u \notin DOMAIN cache => task'[i] = "fetching"

C16_CacheTtl == [][C16_LookupStep]_vars

C16_Witness ==
  /\ ret = Resolved
  /\ \E i \in DOMAIN task :
       /\ task[i] = "hit"
       /\ initial[i].url \in DOMAIN cache
       /\ ServedFromCache(log, initial[i].url, cache[initial[i].url].data) # {}
  /\ \E i \in DOMAIN task :
       /\ task[i] = "fetching"
       /\ initial[i].url \in DOMAIN cache
       /\ cache[initial[i].url].age = CACHE_DURATION

\* The titles a blocked page comes back with
AccessDeniedPlaceholders == {"Denied", "Access Denied", "ACCESS DENIED (403)"}

\* C17: every cache entry holds Metadata with a non-empty title that is no
\* access-denied placeholder and with a positive price or an image; no entry
\* of the result list of a free-text search and no onProgress argument
\* carries a placeholder title; and an entry whose fetched metadata failed
\* the check keeps its initial data and gets no enriched invocation.
C17_OnlyUsefulMetadataKept ==
  /\ \A u \in DOMAIN cache :
       /\ cache[u].data.title # ""
       /\ cache[u].data.title \notin AccessDeniedPlaceholders
       /\ (cache[u].data.price.amount > 0 \/ cache[u].data.image # "")
  /\ kind = "text" =>
       /\ \A i \in DOMAIN results :
            results[i].title # "" /\ results[i].title \notin AccessDeniedPlaceholders
       /\ \A j \in DOMAIN log :
            log[j].result.title # "" /\ log[j].result.title \notin AccessDeniedPlaceholders
  /\ \A i \in DOMAIN task :
       task[i] = "skipped" =>
         /\ results[i] = initial[i]
         /\ InvocationsIn(initial[i].url, "enriched") = {}

C17_Witness ==
  /\ \E i \in DOMAIN task : task[i] = "skipped" /\ initial[i].url \notin DOMAIN cache
  /\ \E i \in DOMAIN task : task[i] = "ok" /\ initial[i].url \in DOMAIN cache

\* C18: whenever fetchMetadata has rejected for a URL that passed the URL
\* check (the proxy requests were issued), the error the caller gets is the
\* one generic 'Could not fetch item details from this URL'.
C18_SingleFailureCondition ==
  (fm = "rejected" /\ \A p \in Proxies : proxy[p] # "idle") =>
    fmError = CouldNotFetch

\* C19: an item whose pagemap offer has a positive price with no currency
\* mark in it and no priceCurrency gets that amount with currency USD.
C19_OfferDefaultsToUsd ==
  ( /\ fnOut.done
    /\ fnIn.offerPrice.present
    /\ fnIn.offerPrice.digits > 0
    /\ fnIn.offerPrice.mark = ""
    /\ ~fnIn.offerCurrency.present ) =>
  fnOut.value = [amount |-> fnIn.offerPrice.digits, currency |-> "USD"]

\* C20: the price of a parsed page is the meta-tag price whenever that is
\* positive; otherwise the price of the first JSON-LD block that yields a
\* positive amount; otherwise what the regex fallback finds.
C20_PriceStrategyPriority ==
  fnOut.done =>
    LET yielding == {k \in DOMAIN fnIn.blocks :
                       BlockPrice(fnIn.blocks[k], fnIn.pref).amount > 0}
    IN IF OgPrice(fnIn).amount > 0
         THEN fnOut.value = OgPrice(fnIn)
       ELSE IF yielding # {}
         THEN \E k \in yielding :
                /\ \A g \in yielding : k <= g
                /\ fnOut.value = BlockPrice(fnIn.blocks[k], fnIn.pref)
       ELSE fnOut.value = HtmlExtractPriceFromText(fnIn.text, fnIn.pref)

C20_Witness ==
  /\ fnOut.done
  /\ fnIn.ogAmount = Text(0, "")
  /\ Len(fnIn.blocks) = 2
  /\ BlockPrice(fnIn.blocks[1], fnIn.pref).amount = 2400
  /\ BlockPrice(fnIn.blocks[2], fnIn.pref).amount = 2300
  /\ fnIn.text = Text(4000, "$")
  /\ fnOut.value.amount = 2400

\* The number a string of digits has when the separator at position p is its
\* decimal point and every other separator is grouping
ReadWithPointAt(s, p) ==
  Num(SelectSeq(SubSeq(s, 1, p - 1), LAMBDA c : c \in DigitChars),
      SelectSeq(SubSeq(s, p + 1, Len(s)), LAMBDA c : c \in DigitChars))

\* The number a string of digits has when every separator is grouping
ReadGrouped(s) == Num(SelectSeq(s, LAMBDA c : c \in DigitChars), << >>)

\* C21: for a string of digits, dots and commas with a positive value: with
\* both separators present, the separator that appears later is the decimal
\* point and the other one is grouping; with commas only, a comma followed
\* by exactly two trailing digits is the decimal point and every other comma
\* is grouping.
C21_SeparatorAmbiguity ==
  LET s == fnIn.str
      lastComma == LastIndexOf(s, ",")
      lastDot   == LastIndexOf(s, ".")
      commas == Cardinality({i \in DOMAIN s : s[i] = ","})
      dots   == Cardinality({i \in DOMAIN s : s[i] = "."})
  IN (fnOut.done /\ ~Includes(s, "-") /\ Includes(s, "1")) =>
       /\ (lastComma > lastDot /\ lastDot > 0 /\ commas = 1) =>
            fnOut.value = ReadWithPointAt(s, lastComma)
       /\ (lastDot > lastComma /\ lastComma > 0 /\ dots = 1) =>
            fnOut.value = ReadWithPointAt(s, lastDot)
       /\ (lastComma > 0 /\ lastDot = 0) =>
            fnOut.value = IF lastComma = Len(s) - 2
                            THEN ReadWithPointAt(s, lastComma)
                            ELSE ReadGrouped(s)

\* C22: for every string parsePriceAmount returns a number that is not NaN
\* and not negative, and returns 0 for the empty string and for a string
\* without a digit.
C22_NeverNegativeOrNaN ==
  fnOut.done =>
    /\ ~fnOut.value.nan
    /\ ~fnOut.value.neg
    /\ fnOut.value.int >= 0
    /\ (\A i \in DOMAIN fnIn.str : fnIn.str[i] \notin DigitChars) => fnOut.value = Zero

C22_Witness ==
  /\ fnOut.done
  /\ fnIn.str = <<"-", "1", ".", "1", "-">>
  /\ fnOut.value = Num(<<"1">>, <<"1">>)

RECURSIVE HostOf(_)
HostOf(url) ==
  IF url = << >> \/ Head(url) = "/" THEN << >> ELSE <<Head(url)>> \o HostOf(Tail(url))

\* s ends with the pattern
EndsWith(s, pattern) ==
  Len(s) >= Len(pattern) /\ SubSeq(s, Len(s) - Len(pattern) + 1, Len(s)) = pattern

\* The currency the top-level domain of the URL maps to, "" if none
TldCurrency(url) ==
  LET host == ToLowerCase(HostOf(url))
      hits == {k \in DOMAIN TldRules : \E m \in TldRules[k].marks : EndsWith(host, m)}
  IN IF hits = {} THEN ""
     ELSE TldRules[CHOOSE k \in hits : \A g \in hits : k <= g].currency

\* C24: for a text whose only currency signal is a bare '$' the result is
\* the currency of the source URL's top-level domain if it has one, else
\* defaultCurrency, else the currency of userLocation, else the stored
\* preference when set and not UNKNOWN, else USD; and it is never UNKNOWN.
C24_BareDollarOrder ==
  (fnOut.done /\ fnIn.text = <<"$", "5">>) =>
    /\ fnOut.value # "UNKNOWN"
    /\ fnOut.value =
         IF TldCurrency(fnIn.sourceUrl) # "" THEN TldCurrency(fnIn.sourceUrl)
         ELSE IF fnIn.defaultCurrency # "" THEN fnIn.defaultCurrency
         ELSE IF LocationCurrency(fnIn.userLocation) # ""
           THEN LocationCurrency(fnIn.userLocation)
         ELSE IF fnIn.pref # "" /\ fnIn.pref # "UNKNOWN" THEN fnIn.pref
         ELSE "USD"

\* C30: a text whose only currency marker is US$, A$, AU$, NZ$, HK$, S$ or
\* RM gives USD, AUD, AUD, NZD, HKD, SGD, MYR whatever the options, and a
\* text without any currency signal gives UNKNOWN.
C30_OwnSymbolWins ==
  fnOut.done =>
    /\ fnIn.text = <<"U", "S", "$", "5">> => fnOut.value = "USD"
    /\ fnIn.text = <<"A", "$", "5">> => fnOut.value = "AUD"
    /\ fnIn.text = <<"A", "U", "$", "5">> => fnOut.value = "AUD"
    /\ fnIn.text = <<"N", "Z", "$", "5">> => fnOut.value = "NZD"
    /\ fnIn.text = <<"H", "K", "$", "5">> => fnOut.value = "HKD"
    /\ fnIn.text = <<"S", "$", "5">> => fnOut.value = "SGD"
    /\ fnIn.text = <<"R", "M", "5">> => fnOut.value = "MYR"
    /\ fnIn.text \in {<<"5">>, << >>} => fnOut.value = "UNKNOWN"

\* C25: while a Resolver call started by the enrichment is still in flight,
\* the promise of the search is already resolved and the entry it
\* is for still holds its initial data; while no such call has completed the
\* resolved list is the initial list.
C25_ReturnDoesNotWait ==
  /\ \A i \in DOMAIN task :
       task[i] = "fetching" => (ret = Resolved /\ results[i] = initial[i])
  /\ (ret = Resolved /\ task # << >>
      /\ \A i \in DOMAIN task : task[i] \in {"none", "hit", "fetching"}) =>
       results = initial

C25_Witness ==
  /\ ret = Resolved
  /\ kind = "text"
  /\ Len(task) = 2
  /\ \A i \in DOMAIN task : task[i] = "fetching"
  /\ results = initial

\* C26: once every enrichment task of the call has ended, each entry of the
\* returned list equals the argument of the last onProgress invocation made
\* for its URL.
C26_ListMatchesLastProgress ==
  (ret = Resolved /\ task # << >> /\ \A i \in DOMAIN task : task[i] # "fetching") =>
    \A i \in DOMAIN results :
      LET js == Invocations(results[i].url)
      IN js # {} =>
           results[i] = log[CHOOSE j \in js : \A g \in js : g <= j].result

\* C27: every entry of the displayed list was produced by the search the
\* list is showing: the most recent one, and none once the list has been
\* cleared or the search cancelled.
C27_OnlyCurrentSearchDisplayed ==
  \A i \in DOMAIN ui.searchResults : ui.searchResults[i].call = ui.shown

\* C28: an entry of the list searchItems returns has isShoppingResult = TRUE
\* exactly when its item came from the shopping branch, that is: when no
\* item of the general-search branch has its normalized URL (the first
\* occurrence is the one deduplication keeps).
C28_FlagMatchesOrigin ==
  (fnIn.op = "merge" /\ fnOut.done) =>
    LET regularItems == RegularItems(fnIn.regular)
    IN \A k \in DOMAIN fnOut.value :
         fnOut.value[k].isShoppingResult
           <=> ~\E j \in DOMAIN regularItems :
                  NormalizeUrl(regularItems[j].link) = NormalizeUrl(fnOut.value[k].url)

\* C29: fetchMetadata never resolves with an empty title: a page without a
\* title makes it reject, and a non-empty raw title is never cleaned down to
\* the empty string.
C29_TitleNeverEmpty ==
  (fnIn.op = "title" /\ fnOut.done) =>
    /\ (Trim(fnIn.text) = << >>) => fnOut.rejected
    /\ ~fnOut.rejected => fnOut.title # << >>
====
